---- MODULE Spec2Model ----
(***************************************************************************)
(* Model of the remote fetch coordinator of kode-ai.rs                     *)
(* (src/src/github/mod.rs: GitHubConnector).                               *)
(*                                                                         *)
(* One coordinator (and its clones, which share the cache, the semaphore   *)
(* and the request counter through Arc) serves concurrent                  *)
(* get_file_contents calls and one list_files scan.  Every await point of  *)
(* the code is a separate step of the model; the code between two await    *)
(* points is one atomic action.                                            *)
(***************************************************************************)
EXTENDS Integers, Sequences, FiniteSets, TLC

(***************************************************************************)
(* Program constants.                                                      *)
(***************************************************************************)
\* github/mod.rs:54   let max_concurrent_requests = 5;
max_concurrent_requests == 5
\* github/mod.rs:84   let max_retries = 3;
max_retries == 3
\* github/mod.rs:86   let mut delay = Duration::from_millis(100);
initial_delay_ms == 100

(***************************************************************************)
(* Bounds of the model.                                                    *)
(***************************************************************************)
\* direct get_file_contents calls in Spec
NCallers == 3
\* direct get_file_contents calls in SpecPermits (more than the permits)
NBulkCallers == 6
\* remote content fetches that the remote side may fail in one behaviour
MaxFailures == 3
\* directory listings that the remote side may fail in one scan
MaxListFailures == 2
\* commits the repository may receive while the coordinator lives
MaxCommits == 1
\* fetch tasks the runtime may abort (JoinError) in one scan
MaxAborts == 1

(***************************************************************************)
(* The remote repository: a finite tree without directory cycles.          *)
(***************************************************************************)
Entry(t, p, n) == [type |-> t, path |-> p, name |-> n]

RootPath == ""

\* what the contents API lists for a directory (items in the remote order)
Listing(d) ==
    CASE d = ""         -> << Entry("file", "README.md", "README.md"),
                              Entry("dir", "docs", "docs"),
                              Entry("symlink", "latest", "latest"),
                              Entry("dir", "src", "src") >>
      [] d = "docs"     -> << Entry("file", "docs/a.md", "a.md"),
                              Entry("dir", "docs/api", "api"),
                              Entry("file", "docs/b.md", "b.md") >>
      [] d = "docs/api" -> << Entry("file", "docs/api/c.md", "c.md") >>
      [] d = "src"      -> << Entry("file", "src/x.md", "x.md"),
                              Entry("submodule", "src/vendor", "vendor"),
                              Entry("file", "src/y.md", "y.md") >>
      [] OTHER          -> << >>

Dirs == {"", "docs", "docs/api", "src"}

Range(s) == {s[i] : i \in 1..Len(s)}

FilePaths == UNION {{e.path : e \in {x \in Range(Listing(d)) : x.type = "file"}} : d \in Dirs}

\* parent directory of a listed path
ParentOf(p) == CHOOSE d \in Dirs : \E e \in Range(Listing(d)) : e.path = p

\* the files for which the remote side may fail a content fetch
FaultyPaths == {"README.md", "docs/api/c.md"}

\* the files that commits to the repository change
ChangingPaths == {"README.md"}

\* the paths direct callers ask for
CallPaths == {"README.md", "docs/a.md"}

\* the scan roots list_files is called with (main.rs passes --github-subfolder)
ScanRoots == {"", "docs"}

\* content of path p after v commits touched it
Content(p, v) == <<p, v>>
NoContent == <<"", -1>>

MapSeq(s, F(_)) == [i \in 1..Len(s) |-> F(s[i])]

(***************************************************************************)
(* Text.  A text is a sequence of characters; a character is named by a    *)
(* string ("nl" is the line feed, "e_acute" and "E_acute" the letter e     *)
(* with an acute accent, which takes two bytes in UTF-8).                  *)
(***************************************************************************)
LowerLetters == {"a", "b", "c", "d", "e", "f", "g", "h", "i", "j", "k", "l", "m",
                 "n", "o", "p", "q", "r", "s", "t", "u", "v", "w", "x", "y", "z",
                 "e_acute"}
UpperLetters == {"A", "I", "P", "R", "S", "T", "E_acute"}
Digits == {"0", "1", "2"}
Whitespace == {" ", "nl"}
Punctuation == {"-", ".", "#"}

\* char::is_alphanumeric
IsAlphanumeric(c) == c \in LowerLetters \cup UpperLetters \cup Digits

\* char::is_whitespace
IsWhitespace(c) == c \in Whitespace

\* str::to_lowercase, one character at a time
LowerChar(c) ==
    CASE c = "A" -> "a" [] c = "I" -> "i" [] c = "P" -> "p" [] c = "R" -> "r"
      [] c = "S" -> "s" [] c = "T" -> "t" [] c = "E_acute" -> "e_acute"
      [] OTHER -> c

\* the bytes a character takes in a Rust string
Utf8Len(c) == IF c \in {"e_acute", "E_acute"} THEN 2 ELSE 1

\* str::len: the length of a text in bytes
RECURSIVE ByteLen(_)
ByteLen(w) == IF w = << >> THEN 0 ELSE Utf8Len(Head(w)) + ByteLen(Tail(w))

\* str::trim: the text without its leading and trailing whitespace
RECURSIVE TrimStart(_)
TrimStart(t) ==
    IF t # << >> /\ IsWhitespace(Head(t)) THEN TrimStart(Tail(t)) ELSE t
RECURSIVE TrimEnd(_)
TrimEnd(t) ==
    IF t # << >> /\ IsWhitespace(t[Len(t)])
    THEN TrimEnd(SubSeq(t, 1, Len(t) - 1)) ELSE t
Trim(t) == TrimEnd(TrimStart(t))

\* the words extract_keywords never keeps
stopwords ==
    { << "t", "h", "e" >>, << "a" >>, << "a", "n" >>,
      << "a", "n", "d" >>, << "o", "r" >>, << "b", "u", "t" >>,
      << "i", "f" >>, << "t", "h", "e", "n" >>, << "e", "l", "s", "e" >>,
      << "w", "h", "e", "n" >>, << "a", "t" >>, << "f", "r", "o", "m" >>,
      << "b", "y" >>, << "f", "o", "r" >>, << "w", "i", "t", "h" >>,
      << "a", "b", "o", "u", "t" >>, << "a", "g", "a", "i", "n", "s", "t" >>, << "b", "e", "t", "w", "e", "e", "n" >>,
      << "i", "n", "t", "o" >>, << "t", "h", "r", "o", "u", "g", "h" >>, << "d", "u", "r", "i", "n", "g" >>,
      << "b", "e", "f", "o", "r", "e" >>, << "a", "f", "t", "e", "r" >>, << "a", "b", "o", "v", "e" >>,
      << "b", "e", "l", "o", "w" >>, << "t", "o" >>, << "o", "f" >>,
      << "i", "n" >>, << "o", "n" >>, << "i", "s" >>,
      << "a", "r", "e" >>, << "w", "a", "s" >>, << "w", "e", "r", "e" >>,
      << "b", "e" >>, << "b", "e", "e", "n" >>, << "b", "e", "i", "n", "g" >>,
      << "h", "a", "v", "e" >>, << "h", "a", "s" >>, << "h", "a", "d" >>,
      << "d", "o" >>, << "d", "o", "e", "s" >>, << "d", "i", "d" >>,
      << "w", "i", "l", "l" >>, << "w", "o", "u", "l", "d" >>, << "s", "h", "a", "l", "l" >>,
      << "s", "h", "o", "u", "l", "d" >>, << "c", "a", "n" >>, << "c", "o", "u", "l", "d" >>,
      << "m", "a", "y" >>, << "m", "i", "g", "h", "t" >>, << "m", "u", "s", "t" >>,
      << "t", "h", "i", "s" >>, << "t", "h", "a", "t" >>, << "t", "h", "e", "s", "e" >>,
      << "t", "h", "o", "s", "e" >>, << "i" >>, << "y", "o", "u" >>,
      << "h", "e" >>, << "s", "h", "e" >>, << "i", "t" >>,
      << "w", "e" >>, << "t", "h", "e", "y" >> }

\* the maximal runs of alphanumeric characters of a text, in order:
\* split on every other character, empty pieces dropped
RECURSIVE SplitWords(_, _, _)
SplitWords(t, cur, acc) ==
    IF t = << >>
    THEN IF cur = << >> THEN acc ELSE Append(acc, cur)
    ELSE IF IsAlphanumeric(Head(t))
         THEN SplitWords(Tail(t), Append(cur, Head(t)), acc)
         ELSE SplitWords(Tail(t), << >>,
                         IF cur = << >> THEN acc ELSE Append(acc, cur))

IsMember(x, s) == \E i \in 1..Len(s) : s[i] = x

\* the first occurrence of each element, in order
RECURSIVE Deduplicate(_, _)
Deduplicate(s, acc) ==
    IF s = << >> THEN acc
    ELSE Deduplicate(Tail(s),
                     IF IsMember(Head(s), acc) THEN acc ELSE Append(acc, Head(s)))

\* a word extract_keywords keeps: longer than two bytes and no stopword
KeepsWord(w) == ByteLen(w) > 2 /\ w \notin stopwords

\* extract_keywords (storage/mod.rs:129-164), step by step
ExtractedFrom(text) ==
    LET lowered  == MapSeq(text, LowerChar)
        words    == SplitWords(lowered, << >>, << >>)
        keywords == SelectSeq(words, KeepsWord)
    IN  Deduplicate(keywords, << >>)

\* the contents of the documents and the queries used below
TextRust == << "R", "u", "s", "t", " ", "s", "y", "s", "t", "e", "m", "s", " ", "l", "a", "n", "g", "u", "a", "g", "e" >>
TextPython == << "P", "y", "t", "h", "o", "n", " ", "i", "s", " ", "a", " ", "l", "a", "n", "g", "u", "a", "g", "e" >>
TextRustNew == << "r", "u", "s", "t", "-", "f", "a", "s", "t", ".", " ", "R", "u", "s", "t", " ", "2" >>
TextNotes == << "I", "t", " ", "i", "s", " ", "A", " ", "t", "h", "e" >>
QueryRustLanguage == << "R", "u", "s", "t", " ", "l", "a", "n", "g", "u", "a", "g", "e", " ", "r", "u", "s", "t" >>
QueryLanguage == << "l", "a", "n", "g", "u", "a", "g", "e" >>
QueryJavascript == << "j", "a", "v", "a", "s", "c", "r", "i", "p", "t" >>
QueryStopwords == << "i", "s", " ", "a" >>
QueryEmpty == << >>

SampleTexts == {TextRust, TextPython, TextRustNew, TextNotes, QueryRustLanguage,
                QueryLanguage, QueryJavascript, QueryStopwords, QueryEmpty}

\* the keywords of these texts, tabulated: the function is pure
ExtractedSamples == [text \in SampleTexts |-> ExtractedFrom(text)]

extract_keywords(text) ==
    IF text \in SampleTexts THEN ExtractedSamples[text] ELSE ExtractedFrom(text)

(***************************************************************************)
(* State.                                                                  *)
(***************************************************************************)
VARIABLES
    file_cache,      \* GitHubConnector.file_cache: path -> content (NoContent: no entry)
    permits,         \* permits available in GitHubConnector.request_semaphore
    request_count,   \* GitHubConnector.request_count
    call,            \* the get_file_contents calls: locals and position of each
    scan,            \* the list_files call: locals and position
    remote,          \* the repository: path -> current content
    failures,        \* content fetches the remote side has failed so far
    list_failures,   \* directory listings the remote side has failed so far
    commits,         \* commits the repository has received so far
    aborts,          \* fetch tasks the runtime has aborted so far
    cache_writes,    \* history: path -> number of inserts into file_cache
    ctor,            \* the last call of GitHubConnector::new: arguments and result
    storage,         \* the DocumentStorage instance, and the record of its last call
    disk,            \* the file documents.json in the storage directory
    response         \* the last answer of a query (storage or tool layer)

vars == << file_cache, permits, request_count, call, scan, remote, failures,
           list_failures, commits, aborts, cache_writes, ctor, storage, disk,
           response >>

\* the state outside the fetch coordinator
lib_vars == << ctor, storage, disk, response >>

Max(a, b) == IF a >= b THEN a ELSE b
Min(a, b) == IF a <= b THEN a ELSE b

\* ids of the direct callers, and of the fetch task of the i-th discovered file
CallerIds == 1..Max(NCallers, NBulkCallers)
TaskBase == Max(NCallers, NBulkCallers)
TaskId(i) == TaskBase + i
TaskIds == {TaskId(i) : i \in 1..Cardinality(FilePaths)}
AllIds == CallerIds \cup TaskIds

\* Result<String> of get_file_contents, and what a JoinHandle adds to it
NoResult == <<"none", NoContent>>
Ok(content) == <<"ok", content>>
Err == <<"err", NoContent>>
JoinError == <<"join_error", NoContent>>

IdleCall == [pc |-> "idle", path |-> "", retry_count |-> 0, delay |-> 0,
             attempts |-> 0, slept |-> << >>, permit |-> FALSE, hit |-> FALSE,
             early |-> FALSE, result |-> NoResult]

IdleScan == [pc |-> "idle", root |-> "", directories_to_process |-> << >>,
             current_path |-> "", file_items |-> << >>, chunk_end |-> 0,
             next_join |-> 1, file_contents |-> << >>, listed |-> {},
             list_failed |-> {}, result |-> <<"none", << >> >>]

\* Option<T>
None == << >>
Some(x) == << x >>

\* HashMap::new()
EmptyMap == [k \in {} |-> k]

\* no constructor call yet
IdleCtor == [owner |-> << >>, repo |-> << >>, token |-> None,
             result |-> "none", connector |-> None]

\* no storage call yet, and no storage instance
NoCall == [op |-> "none", args |-> << >>, result |-> "none",
           before |-> EmptyMap, log |-> << >>, found |-> "none",
           save |-> "none"]
NoStorage == [live |-> FALSE, documents |-> EmptyMap, last |-> NoCall]

\* the storage directory does not exist
NoDir == [kind |-> "nodir", json |-> {}]

\* no query answered yet
NoResponse == [op |-> "none", arg |-> << >>, limit |-> 0, result |-> << >>]

InitLib ==
    /\ ctor = IdleCtor
    /\ storage = NoStorage
    /\ disk = NoDir
    /\ response = NoResponse

InitConnector ==
    /\ file_cache = [p \in FilePaths |-> NoContent]
    /\ permits = max_concurrent_requests
    /\ request_count = 0
    /\ call = [c \in AllIds |-> IdleCall]
    /\ scan = IdleScan
    /\ remote = [p \in FilePaths |-> Content(p, 0)]
    /\ failures = 0
    /\ list_failures = 0
    /\ commits = 0
    /\ aborts = 0
    /\ cache_writes = [p \in FilePaths |-> 0]

Init == InitConnector /\ InitLib

(***************************************************************************)
(* get_file_contents (github/mod.rs:68-123).                               *)
(***************************************************************************)
\* cache.get(path) under the read lock (71-72)
CacheGet(cache, p) == cache[p]

\* mutants of CacheInsert: the insert is left out; the insert evicts the rest
CacheInsert_Skipped(cache, p, content) == cache
CacheInsert_Evicting(cache, p, content) ==
    [q \in DOMAIN cache |-> IF q = p THEN content ELSE NoContent]

\* cache.insert(path, content) under the write lock (106-107)
CacheInsert(cache, p, content) == [cache EXCEPT ![p] = content]

\* the loop's exit test (90): "if retry_count >= max_retries"
RetriesExhausted(retry_count) == retry_count >= max_retries

\* the Err arm's test (114): "if retry_count < max_retries"
MayRetry(retry_count) == retry_count < max_retries

\* what a finished call hands back, with the permit dropped
Finished(c, res) == [call[c] EXCEPT !.pc = "done", !.result = res, !.permit = FALSE]

\* call c is a fetch task, and the task spawned just before it has not returned
BeforePrevious(c) ==
    /\ c \in TaskIds
    /\ c - 1 \in TaskIds
    /\ call[c - 1].pc \in {"spawned", "acquire", "inflight", "sleep"}

\* the record r call c moves to; when the call returns, "early" keeps whether
\* it returned before the task spawned just before it
Returned(c, r) == IF r.pc = "done" THEN [r EXCEPT !.early = BeforePrevious(c)] ELSE r

\* mutant of CacheLookup: the request is counted before the cache is looked at
CacheLookup_Counting(c, p) ==
    /\ IF CacheGet(file_cache, p) # NoContent
       THEN call' = [call EXCEPT ![c] = Returned(c, [@ EXCEPT !.pc = "done", !.path = p, !.hit = TRUE,
                                                   !.result = Ok(CacheGet(file_cache, p))])]
       ELSE call' = [call EXCEPT ![c] = [@ EXCEPT !.pc = "acquire", !.path = p]]
    /\ request_count' = request_count + 1
    /\ UNCHANGED << file_cache, permits, scan, remote, failures,
                    list_failures, commits, aborts, cache_writes >>
    /\ UNCHANGED lib_vars

\* mutant of CacheLookup: a miss for a path that another call is fetching
\* does not start a fetch of its own
CacheLookup_Deduplicating(c, p) ==
    /\ IF CacheGet(file_cache, p) # NoContent
       THEN call' = [call EXCEPT ![c] = Returned(c, [@ EXCEPT !.pc = "done", !.path = p, !.hit = TRUE,
                                                   !.result = Ok(CacheGet(file_cache, p))])]
       ELSE IF \E d \in DOMAIN call : d # c /\ call[d].path = p
                                        /\ call[d].pc \in {"acquire", "inflight", "sleep"}
            THEN call' = [call EXCEPT ![c] = [@ EXCEPT !.pc = "done", !.path = p,
                                                        !.hit = TRUE,
                                                        !.result = Ok(remote[p])]]
            ELSE call' = [call EXCEPT ![c] = [@ EXCEPT !.pc = "acquire", !.path = p]]
    /\ UNCHANGED << file_cache, permits, request_count, scan, remote, failures,
                    list_failures, commits, aborts, cache_writes >>
    /\ UNCHANGED lib_vars

\* lines 70-75: the cache lookup.  A hit returns at once; a miss goes on to
\* wait for a permit.
CacheLookup(c, p) ==
    /\ IF CacheGet(file_cache, p) # NoContent
       THEN call' = [call EXCEPT ![c] = Returned(c, [@ EXCEPT !.pc = "done", !.path = p, !.hit = TRUE,
                                                   !.result = Ok(CacheGet(file_cache, p))])]
       ELSE call' = [call EXCEPT ![c] = [@ EXCEPT !.pc = "acquire", !.path = p]]
    /\ UNCHANGED << file_cache, permits, request_count, scan, remote, failures,
                    list_failures, commits, aborts, cache_writes >>
    /\ UNCHANGED lib_vars

\* a direct caller calls get_file_contents(p)
GetFileContents(c, p) ==
    /\ c \in CallerIds
    /\ call[c].pc = "idle"
    /\ CacheLookup(c, p)

\* mutant of PermitAvailable: the semaphore is not consulted
PermitAvailable_Always == TRUE

\* the guard of acquire_owned().await (78): a permit is available
PermitAvailable == permits > 0

\* line 102: the remote fetch is issued
Issue(r) == [r EXCEPT !.pc = "inflight", !.attempts = @ + 1]

\* lines 88-102, from the top of the loop to its next await: bail out when the
\* retries are used up (90-92), go to sleep when this is not the first attempt
\* (95-96), else issue the remote fetch (102)
LoopTop(r) ==
    IF RetriesExhausted(r.retry_count)
    THEN [r EXCEPT !.pc = "done", !.result = Err, !.permit = FALSE]
    ELSE IF r.retry_count > 0
         THEN [r EXCEPT !.pc = "sleep"]
         ELSE Issue(r)

\* mutant of Release: a call that gives up keeps its permit
Release_Leaking(c, r) == permits

\* the permits after call c moved to record r: a call that returns drops its permit
Release(c, r) == IF call[c].permit /\ ~r.permit THEN permits + 1 ELSE permits

\* lines 78-102: take a permit, count the request, set up the retry loop and
\* enter it
Acquire(c) ==
    /\ call[c].pc = "acquire"
    /\ PermitAvailable
    /\ permits' = permits - 1
    /\ request_count' = request_count + 1
    /\ call' = [call EXCEPT ![c] = Returned(c, LoopTop([@ EXCEPT !.permit = TRUE,
                                                      !.retry_count = 0,
                                                      !.delay = initial_delay_ms]))]
    /\ UNCHANGED << file_cache, scan, remote, failures, list_failures, commits,
                    aborts, cache_writes >>
    /\ UNCHANGED lib_vars

\* lines 96-102: the backoff sleep ends: double the delay and issue the fetch
Wake(c) ==
    /\ call[c].pc = "sleep"
    /\ call' = [call EXCEPT ![c] = Issue([@ EXCEPT !.slept = Append(@, call[c].delay),
                                                   !.delay = @ * 2])]
    /\ UNCHANGED << file_cache, permits, request_count, scan, remote, failures,
                    list_failures, commits, aborts, cache_writes >>
    /\ UNCHANGED lib_vars

\* mutant of FetchOk: a call that fetched its file keeps its permit
FetchOk_KeepingPermit(c) ==
    /\ call[c].pc = "inflight"
    /\ LET content == remote[call[c].path] IN
         /\ file_cache' = CacheInsert(file_cache, call[c].path, content)
         /\ cache_writes' = [cache_writes EXCEPT ![call[c].path] = @ + 1]
         /\ call' = [call EXCEPT ![c] = Returned(c, Finished(c, Ok(content)))]
    /\ UNCHANGED << permits, request_count, scan, remote, failures, list_failures,
                    commits, aborts >>
    /\ UNCHANGED lib_vars

\* lines 102-111 with fetch_file_content (126-140): the remote call returns
\* the file, the content is decoded, inserted into the cache and returned
FetchOk(c) ==
    /\ call[c].pc = "inflight"
    /\ LET content == remote[call[c].path] IN
         /\ file_cache' = CacheInsert(file_cache, call[c].path, content)
         /\ cache_writes' = [cache_writes EXCEPT ![call[c].path] = @ + 1]
         /\ call' = [call EXCEPT ![c] = Returned(c, Finished(c, Ok(content)))]
    /\ permits' = permits + 1
    /\ UNCHANGED << request_count, scan, remote, failures, list_failures, commits,
                    aborts >>
    /\ UNCHANGED lib_vars

\* lines 112-120 with fetch_file_content (126-143): the remote call, the
\* decoding or the "File not found or empty" check fails; count the retry and
\* go round the loop, or hand the error back
FetchErr(c, budget) ==
    /\ call[c].pc = "inflight"
    /\ call[c].path \in FaultyPaths
    /\ failures < budget
    /\ failures' = failures + 1
    /\ LET r == IF MayRetry(call[c].retry_count)
                THEN LoopTop([call[c] EXCEPT !.retry_count = @ + 1])
                ELSE Finished(c, Err)
       IN /\ call' = [call EXCEPT ![c] = Returned(c, r)]
          /\ permits' = Release(c, r)
    /\ UNCHANGED << file_cache, request_count, scan, remote, list_failures, commits,
                    aborts, cache_writes >>
    /\ UNCHANGED lib_vars

\* the repository receives a commit that changes the file at p
RemoteChange(p) ==
    /\ commits < MaxCommits
    /\ commits' = commits + 1
    /\ remote' = [remote EXCEPT ![p] = Content(p, commits + 1)]
    /\ UNCHANGED << file_cache, permits, request_count, call, scan, failures,
                    list_failures, aborts, cache_writes >>
    /\ UNCHANGED lib_vars

(***************************************************************************)
(* Specification of concurrent direct callers.                             *)
(***************************************************************************)
Next ==
    \/ \E c \in 1..NCallers, p \in CallPaths : GetFileContents(c, p)
    \/ \E c \in 1..NCallers : Acquire(c)
    \/ \E c \in 1..NCallers : Wake(c)
    \/ \E c \in 1..NCallers : FetchOk(c)
    \/ \E c \in 1..NCallers : FetchErr(c, MaxFailures)
    \/ \E p \in ChangingPaths : RemoteChange(p)

Spec == Init /\ [][Next]_vars

\* more callers than permits, all after one path; the remote side fails at
\* most one fetch
NextPermits ==
    \/ \E c \in 1..NBulkCallers : GetFileContents(c, "README.md")
    \/ \E c \in 1..NBulkCallers : Acquire(c)
    \/ \E c \in 1..NBulkCallers : Wake(c)
    \/ \E c \in 1..NBulkCallers : FetchOk(c)
    \/ \E c \in 1..NBulkCallers : FetchErr(c, 1)

SpecPermits == Init /\ [][NextPermits]_vars

(***************************************************************************)
(* list_files (github/mod.rs:147-241).                                     *)
(***************************************************************************)
\* the chunk size (185): "let chunk_size = self.max_concurrent_requests"
chunk_size == max_concurrent_requests

IsFile(e) == e.type = "file"

\* mutant of IsDir: a submodule is taken for a directory
IsDir_OrSubmodule(e) == e.type \in {"dir", "submodule"}

IsDir(e) == e.type = "dir"

ItemOf(e) == << e.path, e.name >>
PathOf(e) == e.path

\* lines 171-178: the (path, name) of the items of type "file", in order
FilesOf(items) == MapSeq(SelectSeq(items, IsFile), ItemOf)

\* lines 171-178: the paths of the items of type "dir", in order
DirsOf(items) == MapSeq(SelectSeq(items, IsDir), PathOf)

\* lines 219-238: the Document built for one fetched file
DocumentOf(fc) == [path |-> fc[1], content |-> fc[2]]

UNCHANGED_CALLS == UNCHANGED << file_cache, permits, request_count, call, remote,
                                failures, commits, aborts, cache_writes, ctor,
                                storage, disk, response >>

\* lines 147-153: list_files(root) starts with the root on the worklist
ListFiles(root) ==
    /\ scan.pc = "idle"
    /\ scan' = [scan EXCEPT !.pc = "traverse", !.root = root,
                            !.directories_to_process = << root >>]
    /\ UNCHANGED list_failures
    /\ UNCHANGED_CALLS

\* lines 156-163: pop the last directory of the worklist and ask for its listing
PopDir ==
    /\ scan.pc = "traverse"
    /\ scan.directories_to_process # << >>
    /\ LET w == scan.directories_to_process IN
         scan' = [scan EXCEPT !.pc = "listing",
                              !.current_path = w[Len(w)],
                              !.directories_to_process = SubSeq(w, 1, Len(w) - 1)]
    /\ UNCHANGED list_failures
    /\ UNCHANGED_CALLS

\* lines 164, 171-178: the listing arrives: files are queued for fetch,
\* directories are pushed on the worklist, other kinds are ignored
ListOk ==
    /\ scan.pc = "listing"
    /\ LET items == Listing(scan.current_path) IN
         scan' = [scan EXCEPT !.pc = "traverse",
                              !.file_items = @ \o FilesOf(items),
                              !.directories_to_process = @ \o DirsOf(items),
                              !.listed = @ \cup {scan.current_path}]
    /\ UNCHANGED list_failures
    /\ UNCHANGED_CALLS

\* mutants of ListErr: the failure ends the traversal ("break"); the failure
\* is handed back to the caller of list_files ("?")
ListErr_Break ==
    /\ scan.pc = "listing"
    /\ list_failures < MaxListFailures
    /\ list_failures' = list_failures + 1
    /\ scan' = [scan EXCEPT !.pc = "traverse",
                            !.directories_to_process = << >>,
                            !.list_failed = @ \cup {scan.current_path}]
    /\ UNCHANGED_CALLS
ListErr_Propagated ==
    /\ scan.pc = "listing"
    /\ list_failures < MaxListFailures
    /\ list_failures' = list_failures + 1
    /\ scan' = [scan EXCEPT !.pc = "done",
                            !.list_failed = @ \cup {scan.current_path},
                            !.result = << "err", << >> >>]
    /\ UNCHANGED_CALLS

\* lines 165-168: the listing fails: log, and go on with the next directory
ListErr ==
    /\ scan.pc = "listing"
    /\ list_failures < MaxListFailures
    /\ list_failures' = list_failures + 1
    /\ scan' = [scan EXCEPT !.pc = "traverse",
                            !.list_failed = @ \cup {scan.current_path}]
    /\ UNCHANGED_CALLS

\* lines 156, 181-185: the worklist is empty: the fetch phase starts
EndTraversal ==
    /\ scan.pc = "traverse"
    /\ scan.directories_to_process = << >>
    /\ scan' = [scan EXCEPT !.pc = "spawn", !.chunk_end = 0]
    /\ UNCHANGED list_failures
    /\ UNCHANGED_CALLS

\* mutant of ChunkEnd: the chunk is one file too long
ChunkEnd_Wider(done, n) == Min(done + chunk_size + 1, n)

\* the last index of the chunk that starts after index done (186)
ChunkEnd(done, n) == Min(done + chunk_size, n)

\* lines 186-206: spawn one task per file of the next chunk
SpawnChunk ==
    /\ scan.pc = "spawn"
    /\ scan.chunk_end < Len(scan.file_items)
    /\ LET first == scan.chunk_end + 1
           last == ChunkEnd(scan.chunk_end, Len(scan.file_items))
       IN /\ scan' = [scan EXCEPT !.pc = "join", !.chunk_end = last, !.next_join = first]
          /\ call' = [c \in AllIds |->
                        IF \E i \in first..last : c = TaskId(i)
                        THEN [IdleCall EXCEPT !.pc = "spawned",
                                 !.path = scan.file_items[c - TaskBase][1]]
                        ELSE call[c]]
    /\ UNCHANGED << file_cache, permits, request_count, remote, failures,
                    list_failures, commits, aborts, cache_writes >>
    /\ UNCHANGED lib_vars

\* line 196: a spawned task starts to run: it calls get_file_contents
TaskRun(c) ==
    /\ c \in TaskIds
    /\ call[c].pc = "spawned"
    /\ CacheLookup(c, call[c].path)

\* the runtime ends a task without a value (a panic inside the remote call,
\* a cancellation): its JoinHandle yields Err(JoinError), which line 210 skips;
\* unwinding drops the permit
TaskAbort(c) ==
    /\ c \in TaskIds
    /\ call[c].pc = "inflight"
    /\ call[c].path \in FaultyPaths
    /\ aborts < MaxAborts
    /\ aborts' = aborts + 1
    /\ call' = [call EXCEPT ![c] = Returned(c, Finished(c, JoinError))]
    /\ permits' = permits + 1
    /\ UNCHANGED << file_cache, request_count, scan, remote, failures,
                    list_failures, commits, cache_writes >>
    /\ UNCHANGED lib_vars

\* mutant of Delivered: every awaited task is taken to have fetched its file
Delivered_All(res) == TRUE

\* line 210: "if let Ok(Some((path, content))) = task.await"
Delivered(res) == res[1] = "ok"

\* mutant of JoinTask: a task that fetched nothing ends the fetch phase
JoinTask_Bail ==
    /\ scan.pc = "join"
    /\ LET c == TaskId(scan.next_join) IN
         /\ call[c].pc = "done"
         /\ scan' = IF Delivered(call[c].result)
                    THEN [scan EXCEPT
                            !.file_contents = Append(@, << call[c].path, call[c].result[2] >>),
                            !.next_join = @ + 1,
                            !.pc = IF scan.next_join + 1 > scan.chunk_end
                                   THEN "spawn" ELSE "join"]
                    ELSE [scan EXCEPT !.pc = "spawn",
                                      !.chunk_end = Len(scan.file_items)]
    /\ UNCHANGED list_failures
    /\ UNCHANGED_CALLS

\* mutant of JoinTask: what a task fetched is put in front of the contents
JoinTask_Prepending ==
    /\ scan.pc = "join"
    /\ LET c == TaskId(scan.next_join) IN
         /\ call[c].pc = "done"
         /\ scan' = [scan EXCEPT
                !.file_contents = IF Delivered(call[c].result)
                                  THEN << << call[c].path, call[c].result[2] >> >> \o @
                                  ELSE @,
                !.next_join = @ + 1,
                !.pc = IF scan.next_join + 1 > scan.chunk_end THEN "spawn" ELSE "join"]
    /\ UNCHANGED list_failures
    /\ UNCHANGED_CALLS

\* lines 209-213: await the next task of the chunk, in spawn order, and keep
\* what it fetched
JoinTask ==
    /\ scan.pc = "join"
    /\ LET c == TaskId(scan.next_join) IN
         /\ call[c].pc = "done"
         /\ scan' = [scan EXCEPT
                !.file_contents = IF Delivered(call[c].result)
                                  THEN Append(@, << call[c].path, call[c].result[2] >>)
                                  ELSE @,
                !.next_join = @ + 1,
                !.pc = IF scan.next_join + 1 > scan.chunk_end THEN "spawn" ELSE "join"]
    /\ UNCHANGED list_failures
    /\ UNCHANGED_CALLS

\* mutant of Return: the documents are returned last fetched first
Return_Reversed ==
    /\ scan.pc = "spawn"
    /\ scan.chunk_end >= Len(scan.file_items)
    /\ scan' = [scan EXCEPT !.pc = "done",
                            !.result = << "ok", [k \in 1..Len(scan.file_contents) |->
                                DocumentOf(scan.file_contents[Len(scan.file_contents) + 1 - k])] >>]
    /\ UNCHANGED list_failures
    /\ UNCHANGED_CALLS

\* lines 216-240: every chunk is done: build the documents and return Ok
Return ==
    /\ scan.pc = "spawn"
    /\ scan.chunk_end >= Len(scan.file_items)
    /\ scan' = [scan EXCEPT !.pc = "done",
                            !.result = << "ok", MapSeq(scan.file_contents, DocumentOf) >>]
    /\ UNCHANGED list_failures
    /\ UNCHANGED_CALLS

\* the calls of a scan: its fetch tasks, and one direct caller beside them
ScanCalls == TaskIds \cup {1}

NextScan ==
    \/ \E root \in ScanRoots : ListFiles(root)
    \/ PopDir
    \/ ListOk
    \/ ListErr
    \/ EndTraversal
    \/ SpawnChunk
    \/ \E c \in TaskIds : TaskRun(c)
    \/ \E p \in CallPaths : GetFileContents(1, p)
    \/ \E c \in ScanCalls : Acquire(c)
    \/ \E c \in ScanCalls : Wake(c)
    \/ \E c \in ScanCalls : FetchOk(c)
    \/ \E c \in ScanCalls : FetchErr(c, MaxFailures)
    \/ \E c \in TaskIds : TaskAbort(c)
    \/ JoinTask
    \/ Return

SpecScan == Init /\ [][NextScan]_vars

(***************************************************************************)
(* Properties of get_file_contents.                                        *)
(***************************************************************************)
\* call c has returned Ok from a remote fetch of its own (not from the cache)
FetchedOk(c) == call[c].pc = "done" /\ ~call[c].hit /\ call[c].result[1] = "ok"

\* call c has returned Ok from a remote fetch that succeeded on its third attempt
FetchedOnThird(c) == FetchedOk(c) /\ call[c].attempts = 3

\* call c has returned an error from get_file_contents
Failed(c) == call[c].pc = "done" /\ call[c].result = Err

\* in this step call d enters get_file_contents
Starts(d) == call[d].pc \in {"idle", "spawned"} /\ call'[d].pc \notin {"idle", "spawned"}

\* the remote fetches in flight
InFlight == {c \in AllIds : call[c].pc = "inflight"}

\* C1: get_file_contents fails only after 4 failed remote attempts (1 initial
\* attempt plus 3 retries): a call that has returned an error has made
\* max_retries + 1 attempts.
C1_FailsOnlyAfterFourAttempts ==
    \A c \in AllIds : Failed(c) => call[c].attempts = max_retries + 1

\* C2 as stated: once a call has fetched a path on its third attempt, the
\* content is in the cache when the call returns, and every later call for that
\* path returns that same content from the cache without a remote call.
C2_LaterCallsReturnSameContent ==
    [][ /\ \A c \in AllIds :
             FetchedOk(c)' => file_cache'[call'[c].path] # NoContent
        /\ \A c, d \in AllIds :
             (FetchedOnThird(c) /\ Starts(d) /\ call'[d].path = call[c].path)
                => /\ call'[d].pc = "done"
                   /\ call'[d].hit
                   /\ call'[d].attempts = 0
                   /\ call'[d].result = call[c].result ]_vars

\* the calls other than c that have fetched path p themselves
OtherFetchers(c, p) == {e \in AllIds \ {c} : FetchedOk(e) /\ call[e].path = p}

\* C2 as amended: once a call has fetched a path on its third attempt, the
\* content is in the cache when the call returns, and every later call for that
\* path returns the content then cached for the path without a remote call;
\* it is that same content unless another call that missed the cache for the
\* path has completed a fetch of its own.
C2_LaterCallsServedFromCache ==
    [][ /\ \A c \in AllIds :
             FetchedOk(c)' => file_cache'[call'[c].path] # NoContent
        /\ \A c, d \in AllIds :
             (FetchedOnThird(c) /\ Starts(d) /\ call'[d].path = call[c].path)
                => /\ call'[d].pc = "done"
                   /\ call'[d].hit
                   /\ call'[d].attempts = 0
                   /\ call'[d].result = Ok(file_cache[call[c].path])
                   /\ OtherFetchers(c, call[c].path) = {}
                         => call'[d].result = call[c].result ]_vars

\* a call fetched on its third attempt and a later call was served its content
C2_Witness ==
    \E c, d \in AllIds :
        /\ FetchedOnThird(c)
        /\ call[d].pc = "done" /\ call[d].hit
        /\ call[d].path = call[c].path
        /\ call[d].result = call[c].result

\* C5: at most max_concurrent_requests (5) remote content fetches are in
\* flight at any moment, and a fetch is in flight only while its call holds a
\* permit.
C5_InFlightBounded ==
    /\ Cardinality(InFlight) <= 5
    /\ \A c \in InFlight : call[c].permit

\* five fetches are in flight and a sixth call waits for a permit
C5_Witness ==
    /\ Cardinality(InFlight) = 5
    /\ \E c \in AllIds : call[c].pc = "acquire"

\* C6: a call for a cached path returns at once with the cached content: no
\* remote call, no permit, no count of the request, no change of the cache;
\* the content is what an earlier call fetched for that same path.
C6_CacheHitFrame ==
    [][ \A d \in AllIds :
          (Starts(d) /\ file_cache[call'[d].path] # NoContent)
             => /\ call'[d].pc = "done"
                /\ call'[d].attempts = 0
                /\ ~call'[d].permit
                /\ permits' = permits
                /\ request_count' = request_count
                /\ file_cache' = file_cache
                /\ call'[d].result = Ok(file_cache[call'[d].path])
                /\ \E c \in AllIds :
                      /\ FetchedOk(c)
                      /\ call[c].path = call'[d].path
                      /\ call[c].result = call'[d].result ]_vars

\* a call was served from the cache a content the repository no longer holds
C6_Witness ==
    \E d \in AllIds :
        /\ call[d].pc = "done" /\ call[d].hit
        /\ call[d].result # Ok(remote[call[d].path])

\* C7 as stated: each path is written into the cache at most once, and an
\* entry is never removed or replaced by different content.
C7_WriteOncePerPath ==
    [][ \A p \in FilePaths :
          /\ cache_writes'[p] <= 1
          /\ file_cache[p] # NoContent => file_cache'[p] = file_cache[p] ]_vars

\* C7 as amended: an entry is never removed, and a path is written once by
\* each call that fetched it itself (so never twice by one call); a path that
\* several calls missed together is written by each of them, the later write
\* replacing the earlier content.
C7_NeverRemoved ==
    [][ \A p \in FilePaths :
          /\ file_cache[p] # NoContent => file_cache'[p] # NoContent
          /\ cache_writes'[p] =
                Cardinality({c \in AllIds : FetchedOk(c)' /\ call'[c].path = p})
          /\ file_cache'[p] # file_cache[p]
                => \E c \in AllIds : /\ ~FetchedOk(c) /\ FetchedOk(c)'
                                     /\ call'[c].path = p
                                     /\ call'[c].result = Ok(file_cache'[p]) ]_vars

\* a path was written twice, the second write replacing the content, while
\* another path keeps its entry
C7_Witness ==
    \E p, q \in FilePaths :
        /\ p # q
        /\ cache_writes[p] = 2
        /\ file_cache[q] # NoContent
        /\ \E c \in AllIds : /\ FetchedOk(c) /\ call[c].path = p
                             /\ call[c].result # Ok(file_cache[p])

(***************************************************************************)
(* Properties of list_files.                                               *)
(***************************************************************************)
\* the paths queued for fetch
ItemPath(i) == scan.file_items[i][1]
ItemPaths == {ItemPath(i) : i \in 1..Len(scan.file_items)}

\* the documents list_files returned
Documents == scan.result[2]
DocPaths == {Documents[k].path : k \in 1..Len(Documents)}

\* the fetch task of the i-th queued file returned Ok from get_file_contents
TaskOk(i) == call[TaskId(i)].pc = "done" /\ call[TaskId(i)].result[1] = "ok"

\* the traversal phase is over
TraversalOver == scan.pc \in {"spawn", "join", "done"}

\* directory d is reached from the scan root through directories whose
\* listings did not fail
RECURSIVE Reached(_)
Reached(d) ==
    IF d = scan.root THEN TRUE
    ELSE IF d = RootPath THEN FALSE
    ELSE Reached(ParentOf(d)) /\ ParentOf(d) \notin scan.list_failed

\* file f is listed by a reached directory whose listing did not fail
Discoverable(f) == Reached(ParentOf(f)) /\ ParentOf(f) \notin scan.list_failed

\* the chunk the i-th queued file belongs to, chunks being of 5 files
ChunkOf(i) == (i - 1) \div 5

\* C3: in the result of a scan, a file whose fetch exhausted its retries is
\* absent, and every other queued file whose fetch succeeded is present, in
\* its own chunk and in later chunks.
C3_FailedFileOnlyDropsItself ==
    scan.pc = "done" =>
        \A i \in 1..Len(scan.file_items) :
            /\ Failed(TaskId(i)) => ItemPath(i) \notin DocPaths
            /\ TaskOk(i) => ItemPath(i) \in DocPaths

\* the first file of a scan of six files exhausted its retries; the other
\* five, of the same chunk and of the next, are returned
C3_Witness ==
    /\ scan.pc = "done"
    /\ Len(scan.file_items) = 6
    /\ Failed(TaskId(1)) /\ call[TaskId(1)].attempts = 3
    /\ \A i \in 2..6 : TaskOk(i)
    /\ Len(Documents) = 5

\* C4: a listing failure skips only the subtree of the failed directory:
\* every file reachable through directories whose listings succeeded is
\* queued for fetch and, when its fetch succeeds, returned.
C4_ListingFailureSkipsOnlySubtree ==
    TraversalOver =>
        \A f \in FilePaths :
            Discoverable(f) =>
                \E i \in 1..Len(scan.file_items) :
                    /\ ItemPath(i) = f
                    /\ (scan.pc = "done" /\ TaskOk(i)) => f \in DocPaths

\* the listing of docs failed; the files of its sibling src and of the root
\* are returned
C4_Witness ==
    /\ scan.pc = "done"
    /\ scan.root = RootPath
    /\ "docs" \in scan.list_failed
    /\ {"README.md", "src/x.md", "src/y.md"} \subseteq DocPaths

\* C8: files are fetched in chunks of 5, one task per file of the chunk, and
\* no task of a later chunk exists before every task of the earlier chunks
\* has finished.
C8_ChunksInSequence ==
    /\ \A i, j \in 1..Len(scan.file_items) :
          call[TaskId(j)].pc # "idle" =>
              /\ ChunkOf(i) < ChunkOf(j) => call[TaskId(i)].pc = "done"
              /\ ChunkOf(i) = ChunkOf(j) => call[TaskId(i)].pc # "idle"
    /\ scan.pc = "done" =>
          \A i \in 1..Len(scan.file_items) : call[TaskId(i)].pc = "done"

\* the task of the sixth file is fetching, the five tasks of the first chunk
\* are done
C8_Witness ==
    /\ Len(scan.file_items) = 6
    /\ call[TaskId(6)].pc = "inflight"
    /\ \A i \in 1..5 : call[TaskId(i)].pc = "done"

\* C9: the result holds exactly one document for each queued file whose
\* fetch succeeded, with the file's path and the content its fetch returned,
\* and no other document.
C9_ResultIsTheFetchedFiles ==
    scan.pc = "done" =>
        /\ \A i \in 1..Len(scan.file_items) :
              TaskOk(i) =>
                  /\ Cardinality({k \in 1..Len(Documents) :
                                     Documents[k].path = ItemPath(i)}) = 1
                  /\ \E k \in 1..Len(Documents) :
                        /\ Documents[k].path = ItemPath(i)
                        /\ Documents[k].content = call[TaskId(i)].result[2]
        /\ \A k \in 1..Len(Documents) :
              \E i \in 1..Len(scan.file_items) :
                  ItemPath(i) = Documents[k].path /\ TaskOk(i)

\* a scan of six files returned five: one task was aborted, one was served
\* from the cache
C9_Witness ==
    /\ scan.pc = "done"
    /\ Len(scan.file_items) = 6
    /\ Len(Documents) = 5
    /\ \E i \in 1..6 : call[TaskId(i)].result = JoinError
    /\ \E i \in 1..6 : call[TaskId(i)].hit

\* C10: whatever fails during a scan, list_files returns Ok, holding as many
\* documents as fetches succeeded.
C10_ScanAlwaysReturnsOk ==
    scan.pc = "done" =>
        /\ scan.result[1] = "ok"
        /\ Len(Documents) = Cardinality({i \in 1..Len(scan.file_items) : TaskOk(i)})

\* a listing failed, a fetch exhausted its retries and a task was aborted in
\* one scan, which returned Ok with the files that were left
C10_Witness ==
    /\ scan.pc = "done"
    /\ scan.result[1] = "ok"
    /\ scan.list_failed # {}
    /\ \E i \in 1..Len(scan.file_items) : Failed(TaskId(i))
    /\ \E i \in 1..Len(scan.file_items) : call[TaskId(i)].result = JoinError
    /\ Len(Documents) >= 1

\* the root listing failed: the scan returned Ok with no document
C10_RootFailureWitness ==
    /\ scan.pc = "done"
    /\ scan.root \in scan.list_failed
    /\ scan.result = << "ok", << >> >>


(***************************************************************************)
(* GitHubConnector::new (github/mod.rs:31-65).                             *)
(***************************************************************************)
\* bound: the longest owner, repository name or token tried
MaxStrLen == 2

\* the characters the arguments are made of
NameChars == {" ", "x"}

\* the texts of at most n characters over an alphabet
Texts(A, n) == UNION {[1..k -> A] : k \in 0..n}

Names == Texts(NameChars, MaxStrLen)
Tokens == {None} \cup {Some(t) : t \in Names}

\* "x.trim().is_empty()" (33, 36, 44)
\* mutant of IsBlank: the argument is not trimmed
IsBlank_Untrimmed(t) == t = << >>
IsBlank(t) == Trim(t) = << >>

\* what "builder.build()?" (51) can do
BuildOutcomes == {"ok", "err_build"}

\* the validation of the parameters (33-49): the error it bails with, or "valid"
Validate(owner, repo, token) ==
    IF IsBlank(owner) THEN "err_owner"
    ELSE IF IsBlank(repo) THEN "err_repo"
    ELSE IF token # None /\ IsBlank(token[1]) THEN "err_token"
    ELSE "valid"

ValidationErrors == {"err_owner", "err_repo", "err_token"}

\* the coordinator a successful call returns (56-64)
Connector(owner, repo, token) ==
    [owner |-> owner, repo |-> repo, authenticated |-> token # None,
     file_cache |-> EmptyMap, permits |-> max_concurrent_requests,
     request_count |-> 0]

\* an associated function: it reads no earlier state, so one call is followed
GitHubConnector_new(owner, repo, token) ==
    /\ ctor = IdleCtor
    /\ \E built \in BuildOutcomes :
         LET v == Validate(owner, repo, token)
             result == IF v # "valid" THEN v ELSE built
         IN  ctor' = [owner |-> owner, repo |-> repo, token |-> token,
                      result |-> result,
                      connector |-> IF result = "ok"
                                    THEN Some(Connector(owner, repo, token))
                                    ELSE None]
    /\ UNCHANGED << file_cache, permits, request_count, call, scan, remote,
                    failures, list_failures, commits, aborts, cache_writes,
                    storage, disk, response >>

NextNew == \E owner \in Names, repo \in Names, token \in Tokens :
               GitHubConnector_new(owner, repo, token)

SpecNew == Init /\ [][NextNew]_vars

\* a text that has no character other than whitespace (the empty text included)
OnlyWhitespace(t) == \A i \in 1..Len(t) : t[i] \in Whitespace

\* C11 (as stated): constructing a coordinator fails, without producing one
\* and with no remote call made, when the owner is empty, the repository
\* name is empty, or a supplied credential is empty; with a non-empty owner
\* and repository and no credential, validation passes.
C11_NonEmptyArgumentsPass ==
    ctor.result # "none" =>
        /\ (ctor.owner = << >> \/ ctor.repo = << >>
              \/ (ctor.token # None /\ ctor.token[1] = << >>))
             => (ctor.result \in ValidationErrors /\ ctor.connector = None
                   /\ request_count = 0)
        /\ (ctor.owner # << >> /\ ctor.repo # << >> /\ ctor.token = None)
             => ctor.result \notin ValidationErrors

\* C11 (amended): constructing a coordinator fails, without producing one
\* and with no remote call made, when the owner, the repository name or a
\* supplied credential is empty or only whitespace, the first of these in
\* that order naming the error; otherwise validation passes, in particular
\* with no credential supplied.
C11_BlankArgumentsFail ==
    ctor.result # "none" =>
        LET blankOwner == OnlyWhitespace(ctor.owner)
            blankRepo  == OnlyWhitespace(ctor.repo)
            blankToken == ctor.token # None /\ OnlyWhitespace(ctor.token[1])
        IN  /\ ctor.result = "err_owner" <=> blankOwner
            /\ ctor.result = "err_repo" <=> (~blankOwner /\ blankRepo)
            /\ ctor.result = "err_token"
                 <=> (~blankOwner /\ ~blankRepo /\ blankToken)
            /\ ctor.result # "ok" => ctor.connector = None
            /\ ctor.result = "ok" => ctor.connector # None
            /\ request_count = 0

\* a whitespace-only owner was rejected, and an unauthenticated
\* construction passed
C11_Witness ==
    /\ ctor.owner # << >>
    /\ OnlyWhitespace(ctor.owner)
    /\ ctor.result = "err_owner"
    /\ ctor.connector = None

C11_UnauthenticatedWitness ==
    /\ ctor.token = None
    /\ ctor.result = "ok"
    /\ ctor.connector # None


(***************************************************************************)
(* DocumentStorage (storage/mod.rs).                                       *)
(***************************************************************************)
\* the documents handed to the store: Document { path, content, title, summary }
DocRust == [path |-> "rust.md", content |-> TextRust, title |-> "Rust",
            summary |-> Some("A systems language")]
DocPython == [path |-> "python.md", content |-> TextPython, title |-> "Python",
              summary |-> None]
DocRustNew == [path |-> "rust.md", content |-> TextRustNew, title |-> "Rust 2",
               summary |-> None]
DocNotes == [path |-> "notes.md", content |-> TextNotes, title |-> "Notes",
             summary |-> Some("")]

SampleDocs == {DocRust, DocPython, DocRustNew, DocNotes}

\* the batches handed to store_documents
SampleBatches == { << >>, << DocRust, DocPython >>, << DocRust, DocRustNew >>,
                   << DocRustNew, DocRust >>,
                   << DocNotes, DocRust, DocPython, DocRustNew >> }

\* the paths asked of get_document
LookupPaths == {d.path : d \in SampleDocs} \cup {"missing.md"}

\* the StoredDocument built from a document (50-56, 75-81)
\* mutants of StoredDocument: the summary is dropped; the keywords are not derived
StoredDocument_NoSummary(document) ==
    [path |-> document.path, content |-> document.content,
     title |-> document.title, summary |-> None,
     keywords |-> extract_keywords(document.content)]
StoredDocument_NoKeywords(document) ==
    [path |-> document.path, content |-> document.content,
     title |-> document.title, summary |-> document.summary,
     keywords |-> << >>]
StoredDocument(document) ==
    [path |-> document.path, content |-> document.content,
     title |-> document.title, summary |-> document.summary,
     keywords |-> extract_keywords(document.content)]

\* HashMap::insert (59, 84)
\* mutant of Insert: an entry already under the key is kept
Insert_KeepingOld(map, k, v) ==
    [x \in DOMAIN map \cup {k} |-> IF x \in DOMAIN map THEN map[x] ELSE v]
Insert(map, k, v) ==
    [x \in DOMAIN map \cup {k} |-> IF x = k THEN v ELSE map[x]]

\* the events of a mutating call, in the order the code performs them
InsertEvent(path) == << "insert", path >>
SaveEvent == << "save" >>

\* the loop of store_documents (70-85): the map and the events after it
\* mutant of StoreLoop: the snapshot is written after every insert
RECURSIVE StoreLoop_SavingEach(_, _, _)
StoreLoop_SavingEach(docs, map, log) ==
    IF docs = << >> THEN [documents |-> map, log |-> log]
    ELSE StoreLoop_SavingEach(Tail(docs),
             Insert(map, Head(docs).path, StoredDocument(Head(docs))),
             log \o << InsertEvent(Head(docs).path), SaveEvent >>)
RECURSIVE StoreLoop(_, _, _)
StoreLoop(docs, map, log) ==
    IF docs = << >> THEN [documents |-> map, log |-> log]
    ELSE StoreLoop(Tail(docs),
             Insert(map, Head(docs).path, StoredDocument(Head(docs))),
             Append(log, InsertEvent(Head(docs).path)))

\* documents.json: missing, unparsable, or a JSON object
AbsentDisk == [kind |-> "absent", json |-> {}]
CorruptDisk == [kind |-> "corrupt", json |-> {}]
Snapshot(json) == [kind |-> "snapshot", json |-> json]

\* serde_json::to_writer(writer, &self.documents) (172): the JSON object, a
\* set of members, each a key and the five fields of its entry
Serialize(map) ==
    {<< k, << map[k].path, map[k].content, map[k].title, map[k].summary,
              map[k].keywords >> >> : k \in DOMAIN map}

\* serde_json::from_reader(reader) (188)
Deserialize(json) ==
    [k \in {member[1] : member \in json} |->
        LET v == (CHOOSE member \in json : member[1] = k)[2]
        IN  [path |-> v[1], content |-> v[2], title |-> v[3], summary |-> v[4],
             keywords |-> v[5]]]

\* what save_documents (167-175) can do: write the snapshot; fail to create
\* the file; fail while serializing into the file it has truncated; or fail
\* in the flush the BufWriter performs when dropped, whose error is discarded
SaveOutcomes == {"ok", "create_failed", "write_failed", "flush_lost"}

\* the Result save_documents returns
SaveResult(outcome) == IF outcome \in {"ok", "flush_lost"} THEN "ok" ELSE "err"

\* documents.json after save_documents
DiskAfterSave(map, outcome, old) ==
    CASE outcome = "ok" -> Snapshot(Serialize(map))
      [] outcome = "create_failed" -> old
      [] OTHER -> CorruptDisk

\* load_documents (178-191): Ok(map) or Err
load_documents(d, readable) ==
    CASE d.kind = "absent" -> [result |-> "ok", documents |-> EmptyMap]
      [] d.kind = "snapshot" /\ readable ->
             [result |-> "ok", documents |-> Deserialize(d.json)]
      [] OTHER -> [result |-> "err", documents |-> EmptyMap]

\* what the constructor found at the storage path
Found(d, readable) ==
    IF d.kind = "snapshot" /\ ~readable THEN "unreadable" ELSE d.kind

connector_vars == << file_cache, permits, request_count, call, scan, remote,
                     failures, list_failures, commits, aborts, cache_writes,
                     ctor >>

\* DocumentStorage::new (28-43)
DocumentStorage_new ==
    /\ ~storage.live
    /\ \E dir_created \in BOOLEAN, readable \in BOOLEAN :
         IF disk.kind = "nodir" /\ ~dir_created
         THEN /\ storage' = [NoStorage EXCEPT !.last =
                                [NoCall EXCEPT !.op = "new", !.result = "err",
                                               !.found = "nodir"]]
              /\ disk' = disk
         ELSE LET d == IF disk.kind = "nodir" THEN AbsentDisk ELSE disk
                  loaded == load_documents(d, readable)
              IN  /\ storage' =
                        [live |-> TRUE,
                         documents |-> IF loaded.result = "ok"
                                       THEN loaded.documents ELSE EmptyMap,
                         last |-> [NoCall EXCEPT !.op = "new", !.result = "ok",
                                       !.found = Found(disk, readable)]]
                  /\ disk' = d
    /\ response' = NoResponse
    /\ UNCHANGED connector_vars

\* the instance goes out of scope
DocumentStorage_drop ==
    /\ storage.live
    /\ storage' = NoStorage
    /\ response' = NoResponse
    /\ UNCHANGED << disk, connector_vars >>

\* the end of both mutating calls: save_documents()? and the return (62-65, 88-90)
SaveAndReturn(op, args, after, outcome) ==
    /\ storage' = [live |-> TRUE, documents |-> after.documents,
                   last |-> [op |-> op, args |-> args,
                             result |-> SaveResult(outcome),
                             before |-> storage.documents,
                             log |-> Append(after.log, SaveEvent),
                             found |-> "none", save |-> outcome]]
    /\ disk' = DiskAfterSave(after.documents, outcome, disk)
    /\ response' = NoResponse
    /\ UNCHANGED connector_vars

\* store_document (46-66)
store_document(document) ==
    /\ storage.live
    /\ \E outcome \in SaveOutcomes :
         SaveAndReturn("store_document", << document >>,
             [documents |-> Insert(storage.documents, document.path,
                                   StoredDocument(document)),
              log |-> << InsertEvent(document.path) >>],
             outcome)

\* store_documents (69-91)
store_documents(documents) ==
    /\ storage.live
    /\ \E outcome \in SaveOutcomes :
         SaveAndReturn("store_documents", documents,
                       StoreLoop(documents, storage.documents, << >>), outcome)

\* the orders in which a HashMap can hand out its entries
Orders(S) == {f \in [1..Cardinality(S) -> S] :
                 \A i, j \in 1..Cardinality(S) : i # j => f[i] # f[j]}

\* self.documents.values() in one of these orders
Values(map, order) == [i \in 1..Len(order) |-> map[order[i]]]

\* get_document (99-101)
get_document(path) ==
    /\ storage.live
    /\ response' = [op |-> "get_document", arg |-> path, limit |-> 0,
                    result |-> IF path \in DOMAIN storage.documents
                               THEN Some(storage.documents[path]) ELSE None]
    /\ UNCHANGED << storage, disk, connector_vars >>

\* get_all_documents (94-96)
get_all_documents ==
    /\ storage.live
    /\ \E order \in Orders(DOMAIN storage.documents) :
         response' = [op |-> "get_all_documents", arg |-> << >>, limit |-> 0,
                      result |-> Values(storage.documents, order)]
    /\ UNCHANGED << storage, disk, connector_vars >>

\* the store starts on a path that does not exist, holds no documents.json,
\* or holds one that does not parse
InitStore ==
    /\ InitConnector
    /\ ctor = IdleCtor
    /\ storage = NoStorage
    /\ response = NoResponse
    /\ disk \in {NoDir, AbsentDisk, CorruptDisk}

NextStore ==
    \/ DocumentStorage_new
    \/ DocumentStorage_drop
    \/ \E document \in SampleDocs : store_document(document)
    \/ \E documents \in SampleBatches : store_documents(documents)
    \/ \E path \in LookupPaths : get_document(path)
    \/ get_all_documents

SpecStore == InitStore /\ [][NextStore]_vars


StoreOps == {"store_document", "store_documents"}

\* the step is a call of store_document or store_documents
StoreStep == storage' # storage /\ storage'.last.op \in StoreOps

\* the four fields a stored entry takes from a document
SameDocument(entry, document) ==
    /\ entry.path = document.path
    /\ entry.content = document.content
    /\ entry.title = document.title
    /\ entry.summary = document.summary

\* C12: for any document D and any prior store state, a successful
\* store_document(D) followed by get_document(D.path) returns an entry whose
\* path, content, title and summary are identical to D's.
C12_StoreThenGetReturnsDocument ==
    (/\ response.op = "get_document"
     /\ storage.last.op = "store_document"
     /\ storage.last.result = "ok"
     /\ response.arg = storage.last.args[1].path)
    => /\ response.result # None
       /\ SameDocument(response.result[1], storage.last.args[1])

\* a document with a summary replaced another one under its path and was
\* read back
C12_Witness ==
    /\ response.op = "get_document"
    /\ storage.last.op = "store_document"
    /\ storage.last.result = "ok"
    /\ storage.last.args = << DocRust >>
    /\ response.arg = "rust.md"
    /\ "rust.md" \in DOMAIN storage.last.before
    /\ storage.last.before["rust.md"].content = TextRustNew
    /\ response.result # None
    /\ response.result[1].summary = Some("A systems language")

\* the paths of a batch, and the last document of the batch under a path
PathsOf(docs) == {docs[i].path : i \in 1..Len(docs)}
LastUnder(docs, p) ==
    docs[CHOOSE i \in 1..Len(docs) :
            /\ docs[i].path = p
            /\ \A j \in (i + 1)..Len(docs) : docs[j].path # p]

\* C13: after any sequence of store_document and store_documents calls the
\* store holds exactly one entry per distinct path ever stored, the entry at
\* each path being the document most recently stored under it (full
\* replacement, no merge); get_all_documents returns these entries, each once.
\* Stated per call: a call adds the paths of its documents to the paths held,
\* puts at each of them the last document it was given under that path, and
\* leaves every other entry as it was.
C13_OneEntryPerPathLatestWins ==
    [][ /\ StoreStep =>
             LET docs == storage'.last.args
                 old  == storage.documents
                 new  == storage'.documents
             IN  /\ DOMAIN new = DOMAIN old \cup PathsOf(docs)
                 /\ \A p \in DOMAIN new :
                       IF p \in PathsOf(docs)
                       THEN /\ SameDocument(new[p], LastUnder(docs, p))
                            /\ new[p].keywords =
                                 extract_keywords(LastUnder(docs, p).content)
                       ELSE new[p] = old[p]
        /\ response'.op = "get_all_documents" =>
             LET all == response'.result
             IN  /\ Len(all) = Cardinality(DOMAIN storage'.documents)
                 /\ {all[i].path : i \in 1..Len(all)} = DOMAIN storage'.documents
                 /\ \A i \in 1..Len(all) :
                       all[i] = storage'.documents[all[i].path]
      ]_vars

\* two documents stored under one path left one entry, holding the second,
\* next to an entry under another path, and get_all_documents returned both
C13_Witness ==
    /\ storage.last.op = "store_documents"
    /\ storage.last.args = << DocRust, DocRustNew >>
    /\ DOMAIN storage.last.before = {"python.md"}
    /\ DOMAIN storage.documents = {"python.md", "rust.md"}
    /\ storage.documents["rust.md"].content = TextRustNew
    /\ response.op = "get_all_documents"
    /\ Len(response.result) = 2

\* C14: in every reachable state of the store, including the state right
\* after construction from an existing snapshot, every stored entry's
\* keywords field equals the keyword extractor applied to that entry's
\* content, and every entry is stored under the key equal to its own path.
C14_KeywordsAndKeysDerived ==
    storage.live =>
        \A k \in DOMAIN storage.documents :
            /\ storage.documents[k].path = k
            /\ storage.documents[k].keywords =
                 ExtractedFrom(storage.documents[k].content)

\* a store constructed from an existing snapshot holds entries with keywords
C14_Witness ==
    /\ storage.live
    /\ storage.last.op = "new"
    /\ storage.last.found = "snapshot"
    /\ \E k \in DOMAIN storage.documents :
          /\ storage.documents[k].keywords # << >>
          /\ storage.documents[k].content = TextRustNew
          /\ storage.documents[k].keywords =
               << << "r", "u", "s", "t" >>, << "f", "a", "s", "t" >> >>


\* the positions of the snapshot writes among the events of a call
SavesIn(log) == {i \in 1..Len(log) : log[i] = SaveEvent}

\* C17: store_documents(docs) writes the snapshot exactly once, after all of
\* the batch's upserts have been applied to the in-memory map (never once per
\* document, and none between two upserts of the batch); store_document
\* writes the snapshot exactly once per call.
C17_OneSnapshotWritePerCall ==
    storage.last.op \in StoreOps =>
        LET log  == storage.last.log
            docs == storage.last.args
        IN  /\ SavesIn(log) = {Len(log)}
            /\ Len(log) = Len(docs) + 1
            /\ \A i \in 1..Len(docs) : log[i] = << "insert", docs[i].path >>

\* a batch of four documents was stored with one snapshot write, and the
\* snapshot holds the map the four upserts left
C17_Witness ==
    /\ storage.last.op = "store_documents"
    /\ Len(storage.last.args) = 4
    /\ Cardinality(SavesIn(storage.last.log)) = 1
    /\ storage.last.log[5] = SaveEvent
    /\ disk = Snapshot(Serialize(storage.documents))
    /\ DOMAIN storage.documents = {"notes.md", "python.md", "rust.md"}

\* C18: when writing the snapshot fails during store_document or
\* store_documents, the error is returned to the caller and the mutation is
\* failed: the in-memory map afterwards is the same as before the call, so
\* get_document and get_all_documents do not expose the documents of the
\* failed call.
C18_FailedWriteLeavesMapUnchanged ==
    (storage.last.op \in StoreOps /\ storage.last.save # "ok") =>
        /\ storage.last.result = "err"
        /\ storage.documents = storage.last.before
        /\ (response.op = "get_document"
              /\ response.arg \notin DOMAIN storage.last.before)
             => response.result = None
        /\ response.op = "get_all_documents"
             => Len(response.result) = Cardinality(DOMAIN storage.last.before)

\* C19: after every successful store_document or store_documents call the
\* persisted snapshot is a full rewrite equal to the entire in-memory map: a
\* new store constructed at the same location then holds exactly the same
\* set of paths with identical path, content, title, summary and keywords
\* for each entry.
C19_SnapshotEqualsMapAfterSuccess ==
    (storage.last.op \in StoreOps /\ storage.last.result = "ok") =>
        /\ disk.kind = "snapshot"
        /\ load_documents(disk, TRUE) =
             [result |-> "ok", documents |-> storage.documents]

\* C20: constructing a store succeeds with an empty map both when no
\* snapshot exists at the configured location and when a snapshot exists but
\* is unreadable or corrupt, no error being surfaced; and the next
\* successful mutating call overwrites the corrupt snapshot with only the
\* newly stored documents.
C20_CorruptSnapshotStartsEmptyAndIsOverwritten ==
    [][ /\ (storage' # storage /\ storage'.last.op = "new"
              /\ storage'.last.found \in {"absent", "corrupt", "unreadable"})
             => /\ storage'.live
                /\ storage'.last.result = "ok"
                /\ storage'.documents = EmptyMap
        /\ (StoreStep /\ storage.last.op = "new"
              /\ storage.last.found = "corrupt"
              /\ storage'.last.result = "ok")
             => /\ disk'.kind = "snapshot"
                /\ LET held == Deserialize(disk'.json)
                       docs == storage'.last.args
                   IN  /\ DOMAIN held = PathsOf(docs)
                       /\ \A p \in DOMAIN held :
                             SameDocument(held[p], LastUnder(docs, p))
      ]_vars


(***************************************************************************)
(* Queries: find_relevant_documents (storage/mod.rs:104-126) and the tool  *)
(* find_relevant_docs (server/tools.rs:109-154).                           *)
(***************************************************************************)

SampleQueries == {QueryRustLanguage, QueryLanguage, QueryJavascript,
                  QueryStopwords, QueryEmpty}

\* bound: the largest limit a tool request carries
MaxLimit == 3

\* FindRelevantDocsRequest::limit: negative, zero (the default) or positive
Limits == -1..MaxLimit

\* the score of a document (110-113): the query keywords its keywords contain
Score(doc, query_keywords) ==
    Len(SelectSeq(query_keywords, LAMBDA kw : IsMember(kw, doc.keywords)))

\* the scored documents with a score above 0, in iteration order (107-117)
ScoredDocuments(map, order, query_keywords) ==
    SelectSeq([i \in 1..Len(order) |->
                  << map[order[i]], Score(map[order[i]], query_keywords) >>],
              LAMBDA scored : scored[2] > 0)

\* sort_by(score2.cmp(score1)) (120): a stable sort, highest score first;
\* one element is placed behind the elements that do not sort after it
\* mutant of InsertByScore: lowest score first
InsertByScore_Ascending(sorted, x) ==
    LET k == Cardinality({i \in 1..Len(sorted) : sorted[i][2] <= x[2]})
    IN  SubSeq(sorted, 1, k) \o << x >> \o SubSeq(sorted, k + 1, Len(sorted))
InsertByScore(sorted, x) ==
    LET k == Cardinality({i \in 1..Len(sorted) : sorted[i][2] >= x[2]})
    IN  SubSeq(sorted, 1, k) \o << x >> \o SubSeq(sorted, k + 1, Len(sorted))

RECURSIVE SortByScore(_, _)
SortByScore(s, acc) ==
    IF s = << >> THEN acc
    ELSE SortByScore(Tail(s), InsertByScore(acc, Head(s)))

\* what find_relevant_documents returns when the map iterates in this order
Relevant(map, order, query) ==
    MapSeq(SortByScore(ScoredDocuments(map, order, extract_keywords(query)),
                       << >>),
           LAMBDA scored : scored[1])

find_relevant_documents(query) ==
    /\ storage.live
    /\ \E order \in Orders(DOMAIN storage.documents) :
         response' = [op |-> "find_relevant_documents", arg |-> query,
                      limit |-> 0,
                      result |-> Relevant(storage.documents, order, query)]
    /\ UNCHANGED << storage, disk, connector_vars >>

\* the text of the answer to a query without a match (tools.rs:121)
NoMatchMessage == "No relevant documents found for the query"

\* the JSON record of a document in a tool answer (tools.rs:129-134)
DocRecord(doc) == [path |-> doc.path, title |-> doc.title,
                   summary |-> doc.summary, content |-> doc.content]

\* mutant of Limited: a limit of 0 is applied like a positive limit
Limited_FromZero(records, limit) ==
    IF limit >= 0 /\ limit < Len(records)
    THEN SubSeq(records, 1, limit) ELSE records

\* the records after the limit is applied (tools.rs:73-77, 139-143)
Limited(records, limit) ==
    IF limit > 0 /\ limit < Len(records)
    THEN SubSeq(records, 1, limit) ELSE records

\* the CallToolResult of find_relevant_docs (tools.rs:117-153)
\* mutant of ToolAnswer: no match is answered as an error
ToolAnswer_ErrorOnEmpty(docs, limit) ==
    IF docs = << >>
    THEN [is_error |-> TRUE, body |-> [message |-> NoMatchMessage]]
    ELSE [is_error |-> FALSE,
          body |-> [total |-> Len(docs),
                    returned |-> Len(Limited(MapSeq(docs, DocRecord), limit)),
                    documents |-> Limited(MapSeq(docs, DocRecord), limit)]]
ToolAnswer(docs, limit) ==
    IF docs = << >>
    THEN [is_error |-> FALSE,
          body |-> [documents |-> << >>, message |-> NoMatchMessage]]
    ELSE [is_error |-> FALSE,
          body |-> [total |-> Len(docs),
                    returned |-> Len(Limited(MapSeq(docs, DocRecord), limit)),
                    documents |-> Limited(MapSeq(docs, DocRecord), limit)]]

find_relevant_docs(query, limit) ==
    /\ storage.live
    /\ \E order \in Orders(DOMAIN storage.documents) :
         response' = [op |-> "find_relevant_docs", arg |-> query,
                      limit |-> limit,
                      result |-> ToolAnswer(Relevant(storage.documents, order,
                                                     query), limit)]
    /\ UNCHANGED << storage, disk, connector_vars >>

\* the JSON record of a document in the answer of get_all_docs (tools.rs:63-67)
SummaryRecord(doc) == [path |-> doc.path, title |-> doc.title,
                       summary |-> doc.summary]

\* the CallToolResult of get_all_docs (tools.rs:60-87)
AllDocsAnswer(docs, limit) ==
    [is_error |-> FALSE,
     body |-> [total |-> Len(docs),
               returned |-> Len(Limited(MapSeq(docs, SummaryRecord), limit)),
               documents |-> Limited(MapSeq(docs, SummaryRecord), limit)]]

\* get_all_docs (tools.rs:56-88)
get_all_docs(limit) ==
    /\ storage.live
    /\ \E order \in Orders(DOMAIN storage.documents) :
         response' = [op |-> "get_all_docs", arg |-> << >>, limit |-> limit,
                      result |-> AllDocsAnswer(Values(storage.documents, order),
                                               limit)]
    /\ UNCHANGED << storage, disk, connector_vars >>

\* the maps a store can be constructed from: what store_document and
\* store_documents leave behind after one call on an empty store
SampleStores ==
    {StoreLoop(docs, EmptyMap, << >>).documents :
        docs \in SampleBatches \cup {<< d >> : d \in SampleDocs}}

\* queries are asked of a store constructed from a snapshot, or from none
InitQuery ==
    /\ InitConnector
    /\ ctor = IdleCtor
    /\ storage = NoStorage
    /\ response = NoResponse
    /\ disk \in {AbsentDisk} \cup {Snapshot(Serialize(m)) : m \in SampleStores}

NextQuery ==
    \/ DocumentStorage_new
    \/ \E query \in SampleQueries : find_relevant_documents(query)
    \/ \E query \in SampleQueries, limit \in Limits :
          find_relevant_docs(query, limit)
    \/ \E limit \in Limits : get_all_docs(limit)

SpecQuery == InitQuery /\ [][NextQuery]_vars

\* the score as the number of distinct query keywords in the keyword set
MatchCount(doc, query) ==
    Cardinality(Range(ExtractedFrom(query)) \cap Range(doc.keywords))

\* C15: find_relevant_documents(query) returns exactly the stored documents
\* whose score is greater than 0, each once, the score being the number of
\* distinct keywords of the tokenized query that occur in the document's
\* keyword set, and the returned sequence is in non-increasing score order.
C15_ExactlyTheMatchesByScore ==
    response.op = "find_relevant_documents" =>
        LET found == response.result
            query == response.arg
        IN  /\ Range(found) =
                 {storage.documents[k] : k \in
                     {p \in DOMAIN storage.documents :
                         MatchCount(storage.documents[p], query) > 0}}
            /\ Len(found) = Cardinality(Range(found))
            /\ \A i, j \in 1..Len(found) :
                  i < j => MatchCount(found[i], query)
                             >= MatchCount(found[j], query)

\* a query repeating a keyword returned a document of score 2 before one of
\* score 1, whichever of the two the map handed out first
C15_Witness ==
    /\ response.op = "find_relevant_documents"
    /\ response.arg = QueryRustLanguage
    /\ Len(response.result) = 2
    /\ MatchCount(response.result[1], response.arg) = 2
    /\ MatchCount(response.result[2], response.arg) = 1
    /\ Cardinality(DOMAIN storage.documents) = 2

\* no stored document shares a keyword with the query
NoMatch(query) ==
    \A k \in DOMAIN storage.documents :
        Range(ExtractedFrom(query)) \cap Range(storage.documents[k].keywords)
          = {}

\* C16: a query that matches no stored document is never an error:
\* find_relevant_documents returns an empty sequence, and the
\* find_relevant_docs tool returns a success result carrying an empty
\* document list and an explicit no-match message; this holds for an empty
\* store and for a query whose tokenization is empty.
C16_NoMatchIsNotAnError ==
    (response.op \in {"find_relevant_documents", "find_relevant_docs"}
       /\ NoMatch(response.arg)) =>
        IF response.op = "find_relevant_documents"
        THEN response.result = << >>
        ELSE /\ ~response.result.is_error
             /\ DOMAIN response.result.body = {"documents", "message"}
             /\ response.result.body.documents = << >>
             /\ response.result.body.message # ""

\* the tool answered a query whose tokenization is empty on a store that
\* holds documents, and a query on an empty store
C16_Witness ==
    /\ response.op = "find_relevant_docs"
    /\ response.arg = QueryStopwords
    /\ extract_keywords(response.arg) = << >>
    /\ storage.documents # EmptyMap
    /\ ~response.result.is_error
    /\ response.result.body.documents = << >>

C16_EmptyStoreWitness ==
    /\ response.op = "find_relevant_docs"
    /\ response.arg = QueryRustLanguage
    /\ storage.live
    /\ storage.documents = EmptyMap
    /\ ~response.result.is_error
    /\ response.result.body.documents = << >>


(***************************************************************************)
(* The keyword extractor as a function of its text                         *)
(* (storage/mod.rs:129-164).                                               *)
(***************************************************************************)
\* bound: the longest text built from the characters below
MaxTextLen == 4

\* the characters the texts are built from: letters that spell the stopwords
\* "a", "an" and "and", an upper-case letter, a two-byte letter, a separator
ExtractChars == {"a", "n", "d", "A", "e_acute", " "}

\* the texts handed to the extractor
ExtractInputs == Texts(ExtractChars, MaxTextLen) \cup SampleTexts

\* one call of extract_keywords; it reads no state
ExtractKeywords(text) ==
    /\ response = NoResponse
    /\ response' = [op |-> "extract_keywords", arg |-> text, limit |-> 0,
                    result |-> extract_keywords(text)]
    /\ UNCHANGED << storage, disk, connector_vars >>

NextExtract == \E text \in ExtractInputs : ExtractKeywords(text)

SpecExtract == Init /\ [][NextExtract]_vars

\* the maximal runs of alphanumeric characters of a text, as (first, last)
RunsOf(t) ==
    {r \in (1..Len(t)) \X (1..Len(t)) :
        /\ r[1] <= r[2]
        /\ \A i \in r[1]..r[2] : IsAlphanumeric(t[i])
        /\ (r[1] = 1 \/ ~IsAlphanumeric(t[r[1] - 1]))
        /\ (r[2] = Len(t) \/ ~IsAlphanumeric(t[r[2] + 1]))}

\* the tokens the claim keeps: runs of the lower-cased text that are longer
\* than 2 characters and no stopword
KeptRuns(t) ==
    {r \in RunsOf(t) :
        /\ r[2] - r[1] + 1 > 2
        /\ SubSeq(t, r[1], r[2]) \notin stopwords}

\* where a word first starts in a text
FirstStart(t, w) ==
    CHOOSE i \in 1..Len(t) :
        /\ \E r \in RunsOf(t) : r[1] = i /\ SubSeq(t, r[1], r[2]) = w
        /\ \A r \in RunsOf(t) : SubSeq(t, r[1], r[2]) = w => r[1] >= i

\* C21: the keyword extractor is a function of its text whose result has no
\* duplicates, lists keywords in first-occurrence order, and holds exactly
\* the tokens that are lower-cased maximal runs of alphanumeric characters,
\* longer than 2 characters, and not in the stopword list.
C21_ExtractorKeepsTokensLongerThanTwoCharacters ==
    response.op = "extract_keywords" =>
        LET lowered == [i \in 1..Len(response.arg) |-> LowerChar(response.arg[i])]
            kws == response.result
        IN  /\ Len(kws) = Cardinality(Range(kws))
            /\ Range(kws) =
                 {SubSeq(lowered, r[1], r[2]) : r \in KeptRuns(lowered)}
            /\ \A i, j \in 1..Len(kws) :
                  i < j => FirstStart(lowered, kws[i]) < FirstStart(lowered, kws[j])
            /\ \A i \in 1..Len(kws) :
                  \A n \in 1..Len(kws[i]) : LowerChar(kws[i][n]) = kws[i][n]


(***************************************************************************)
(* Further properties of get_file_contents.                                *)
(***************************************************************************)
\* C22: concurrent get_file_contents calls for the same uncached path are
\* not deduplicated.  Every call that finds no entry for its path goes on to
\* a remote call of its own, whatever other calls are doing for that path,
\* and every call whose fetch succeeds writes the entry of its path, whether
\* or not another call has written it meanwhile.
C22_MissesAreNotDeduplicated ==
    [][ \A c \in AllIds :
          /\ (Starts(c) /\ file_cache[call'[c].path] = NoContent)
                => (call'[c].pc = "acquire" /\ ~call'[c].hit)
          /\ (call[c].pc = "inflight" /\ FetchedOk(c)')
                => /\ cache_writes'[call[c].path] = cache_writes[call[c].path] + 1
                   /\ file_cache'[call[c].path] = call'[c].result[2] ]_vars

\* two callers have both missed the cache and both have a remote call for
\* the same path in flight, before either has written the cache
C22_Witness ==
    \E c, d \in AllIds :
        /\ c # d
        /\ call[c].path = call[d].path
        /\ call[c].pc = "inflight" /\ call[d].pc = "inflight"
        /\ file_cache[call[c].path] = NoContent
        /\ cache_writes[call[c].path] = 0

\* and both have then written the cache entry of that path
C22_BothWroteWitness ==
    \E c, d \in AllIds :
        /\ c # d
        /\ call[c].path = call[d].path
        /\ FetchedOk(c) /\ FetchedOk(d)
        /\ cache_writes[call[c].path] = 2


\* C24: in get_file_contents no delay precedes the first attempt, and the
\* delays waited before the first, second and third retry are 100 ms, 200 ms
\* and 400 ms (each double the previous one), the sequence restarting at
\* 100 ms for every call: a call that has issued k attempts has waited the
\* first k - 1 of these delays, and a call that gave up has waited all three.
C24_BackoffDelays ==
    \A c \in AllIds :
        /\ call[c].attempts >= 1
             => call[c].slept = SubSeq(<< 100, 200, 400 >>, 1, call[c].attempts - 1)
        /\ call[c].attempts = 0 => call[c].slept = << >>
        /\ Failed(c) => call[c].slept = << 100, 200, 400 >>


\* the calls that hold a permit
PermitHolders == {c \in AllIds : call[c].permit}

\* C30: permits are conserved: the available permits plus the calls past
\* permit acquisition are always 5; a call holds its permit across all its
\* attempts and backoff delays and gives it back on every exit path, so once
\* all calls have returned all 5 permits are available; the request counter
\* is incremented once per call that missed the cache and got a permit, not
\* once per attempt.
C30_PermitsConserved ==
    /\ permits + Cardinality(PermitHolders) = 5
    /\ \A c \in AllIds : call[c].permit <=> call[c].pc \in {"inflight", "sleep"}
    /\ (\A c \in AllIds : call[c].pc \in {"idle", "done"}) => permits = 5
    /\ request_count = Cardinality({c \in AllIds : call[c].attempts >= 1})
    /\ \A c \in AllIds : call[c].hit => call[c].attempts = 0

\* all calls have returned, one after using up its retries, one from the
\* cache; the permits are back and the counter stands at the two misses
C30_Witness ==
    /\ \A c \in 1..NCallers : call[c].pc = "done"
    /\ \E c \in 1..NCallers : Failed(c) /\ call[c].attempts = 3
    /\ \E c \in 1..NCallers : FetchedOk(c)
    /\ \E c \in 1..NCallers : call[c].hit
    /\ permits = 5
    /\ request_count = 2

(***************************************************************************)
(* The traversal phase of list_files.                                      *)
(***************************************************************************)
\* the entries of the listing of d that are of the given kind
EntryPaths(d, kind) == {e.path : e \in {x \in Range(Listing(d)) : x.type = kind}}

\* the entries of the listing of d that are neither files nor directories
OtherPaths(d) ==
    {e.path : e \in {x \in Range(Listing(d)) : x.type \notin {"file", "dir"}}}

\* the same, tabulated over the directories of the tree
FileEntries == [d \in Dirs |-> EntryPaths(d, "file")]
DirEntries == [d \in Dirs |-> EntryPaths(d, "dir")]
OtherEntries == UNION {OtherPaths(d) : d \in Dirs}

\* what a step appended to a sequence that it only extended
Appended(old, new) == SubSeq(new, Len(old) + 1, Len(new))
Extends(old, new) == Len(new) >= Len(old) /\ SubSeq(new, 1, Len(old)) = old

\* C25: the traversal is sequential and driven by the worklist: a listing is
\* asked for only when none is outstanding, for the directory popped from the
\* worklist, which was never listed before; a listing that arrives queues its
\* files for fetch and pushes its directories, and nothing else; a listing
\* that fails queues and pushes nothing; no fetch task exists while the
\* worklist holds a directory; when the traversal is over, every directory
\* that was pushed has been listed.
C25_SequentialWorklistTraversal ==
    [][ /\ (scan.pc # "listing" /\ scan'.pc = "listing")
            => /\ scan.pc = "traverse"
               /\ scan.directories_to_process =
                     Append(scan'.directories_to_process, scan'.current_path)
               /\ scan'.current_path \notin scan.listed \cup scan.list_failed
               /\ scan'.file_items = scan.file_items
        /\ (scan.pc = "listing" /\ scan'.pc # "listing")
            => /\ scan'.pc = "traverse"
               /\ Extends(scan.file_items, scan'.file_items)
               /\ Extends(scan.directories_to_process, scan'.directories_to_process)
               /\ LET d == scan.current_path
                      files == Appended(scan.file_items, scan'.file_items)
                      dirs == Appended(scan.directories_to_process,
                                       scan'.directories_to_process)
                  IN IF d \in scan'.listed
                     THEN /\ {f[1] : f \in Range(files)} = FileEntries[d]
                          /\ Len(files) = Cardinality(FileEntries[d])
                          /\ Range(dirs) = DirEntries[d]
                          /\ Len(dirs) = Cardinality(DirEntries[d])
                     ELSE /\ d \in scan'.list_failed
                          /\ files = << >>
                          /\ dirs = << >>
        /\ scan' # scan
            => /\ OtherEntries \cap Range(scan'.directories_to_process) = {}
               /\ OtherEntries \cap {f[1] : f \in Range(scan'.file_items)} = {}
               /\ OtherEntries \cap (scan'.listed \cup scan'.list_failed) = {}
               /\ scan'.pc \in {"spawn", "join", "done"}
                   => /\ scan'.directories_to_process = << >>
                      /\ scan'.listed \cup scan'.list_failed
                            = {scan'.root} \cup UNION {DirEntries[d] : d \in scan'.listed}
        /\ call' # call
            => \A c \in TaskIds :
                  call'[c].pc # "idle"
                     => /\ scan'.directories_to_process = << >>
                        /\ scan'.pc \in {"spawn", "join", "done"}
      ]_vars

\* the whole tree was traversed: four listings, six files queued, the symlink
\* and the submodule left out, and no fetch task started yet
C25_Witness ==
    /\ scan.pc = "spawn"
    /\ scan.chunk_end = 0
    /\ scan.listed = Dirs
    /\ Len(scan.file_items) = 6
    /\ \A c \in TaskIds : call[c].pc = "idle"

(***************************************************************************)
(* The order of the documents list_files returns.                          *)
(***************************************************************************)
\* the place in the result of the document of the i-th queued file
PosOf(i) == CHOOSE k \in 1..Len(Documents) : Documents[k].path = ItemPath(i)

\* the i-th and the j-th queued files are of one chunk and both are in the result
BothReturned(i, j) ==
    /\ ChunkOf(i) = ChunkOf(j)
    /\ TaskOk(i)
    /\ TaskOk(j)

\* the task of the i-th queued file returned before the task spawned just
\* before it
ReturnedEarly(i) == call[TaskId(i)].early

\* C23 as stated: within a chunk the documents are in the order in which the
\* fetch tasks completed: of two tasks spawned one after the other, the
\* document of the one that completed first comes first.
C23_ResultInCompletionOrder ==
    scan.pc = "done" =>
        \A i \in 2..Len(scan.file_items) :
            BothReturned(i - 1, i) =>
                IF ReturnedEarly(i) THEN PosOf(i) < PosOf(i - 1)
                                    ELSE PosOf(i - 1) < PosOf(i)

\* C23 as amended: within a chunk the documents are in the order in which
\* the fetch tasks were spawned, whatever the order in which they completed.
C23_ResultInSpawnOrder ==
    scan.pc = "done" =>
        \A i, j \in 1..Len(scan.file_items) :
            (i < j /\ BothReturned(i, j)) => PosOf(i) < PosOf(j)

\* a task completed before the task spawned just before it, and its document
\* comes after that task's document
C23_Witness ==
    /\ scan.pc = "done"
    /\ \E i \in 2..Len(scan.file_items) :
          /\ BothReturned(i - 1, i)
          /\ ReturnedEarly(i)
          /\ PosOf(i - 1) < PosOf(i)

\* the paths of the queued files from the i-th on whose fetch succeeded
RECURSIVE FetchedFrom(_)
FetchedFrom(i) ==
    IF i > Len(scan.file_items) THEN << >>
    ELSE IF TaskOk(i) THEN << ItemPath(i) >> \o FetchedFrom(i + 1)
    ELSE FetchedFrom(i + 1)

\* C29: the paths of the returned documents are the paths of the discovered
\* files, in discovery order, without the files whose fetch did not succeed;
\* the sequence depends on the listings and on the outcome of each fetch only,
\* not on the order in which the tasks complete.
C29_ResultInDiscoveryOrder ==
    scan.pc = "done" =>
        [k \in 1..Len(Documents) |-> Documents[k].path] = FetchedFrom(1)

\* a scan of six files returned five, in discovery order, although a task
\* completed before the task spawned just before it and one fetch failed
C29_Witness ==
    /\ scan.pc = "done"
    /\ Len(scan.file_items) = 6
    /\ Len(Documents) = 5
    /\ \E i \in 1..6 : Failed(TaskId(i))
    /\ \E i \in 2..5 : ReturnedEarly(i) /\ TaskOk(i) /\ TaskOk(i - 1)
    /\ Documents[5].path = ItemPath(6)

(***************************************************************************)
(* A scan under fair scheduling: list_files("") beside a direct caller of  *)
(* get_file_contents, so that six calls compete for five permits.  No task *)
(* is ended by the runtime: every remote call returns.                     *)
(***************************************************************************)
\* the steps of list_files itself, between two of its await points
ScanStep ==
    \/ PopDir
    \/ EndTraversal
    \/ SpawnChunk
    \/ JoinTask
    \/ Return

\* the steps of call c that the runtime, the semaphore and the timer owe it:
\* a spawned task is polled, a free permit is handed out, a sleep ends
CallStep(c) ==
    \/ TaskRun(c)
    \/ Acquire(c)
    \/ Wake(c)

NextLive ==
    \/ ListFiles(RootPath)
    \/ ScanStep
    \/ ListOk
    \/ ListErr
    \/ GetFileContents(1, "docs/a.md")
    \/ \E c \in ScanCalls : CallStep(c)
    \/ \E c \in ScanCalls : FetchOk(c)
    \/ \E c \in ScanCalls : FetchErr(c, MaxFailures)

\* tokio polls every runnable task again, its semaphore hands a free permit
\* to a waiter, its timer fires; every remote call returns (with the listing
\* or the file in the end: the failures of the remote side are bounded).
\* list_files and each call are sequential: one of their steps is enabled at
\* a time, so one condition for each of them is enough.
Fairness ==
    /\ WF_vars(ScanStep \/ ListOk)
    /\ \A c \in ScanCalls : WF_vars(CallStep(c) \/ FetchOk(c))

SpecLive == Init /\ [][NextLive]_vars /\ Fairness

\* the scan has returned: the worklist is empty, every queued file had its
\* task, and every task either fetched its file or exhausted its retries
ScanReturned ==
    /\ scan.pc = "done"
    /\ scan.result[1] = "ok"
    /\ scan.directories_to_process = << >>
    /\ \A i \in 1..Len(scan.file_items) : TaskOk(i) \/ Failed(TaskId(i))

\* no call of get_file_contents is under way
NoCallPending == \A c \in ScanCalls : call[c].pc \in {"idle", "done"}

\* C26: under fair scheduling, with remote calls that return, a scan that
\* was started returns, with the worklist empty and every spawned task either
\* successful or out of retries; and no call waits forever for a permit or
\* for the cache: from some point on no call is under way.
C26_ScanTerminates ==
    /\ (scan.pc # "idle") ~> ScanReturned
    /\ <>[]NoCallPending

\* a scan of six files has returned beside a direct caller; one task
\* exhausted its retries and another fetched its file
C26_Witness ==
    /\ ScanReturned
    /\ NoCallPending
    /\ Len(scan.file_items) = 6
    /\ call[1].pc = "done"
    /\ \E i \in 1..Len(scan.file_items) : Failed(TaskId(i))
    /\ \E i \in 1..Len(scan.file_items) : TaskOk(i)
    /\ permits = max_concurrent_requests

(***************************************************************************)
(* The counts and the limit of the tool answers.                           *)
(***************************************************************************)
\* the stored documents a tool call selects before its limit is applied: all
\* of them for get_all_docs, the matches of the query for find_relevant_docs
Selected ==
    IF response.op = "get_all_docs" THEN DOMAIN storage.documents
    ELSE {p \in DOMAIN storage.documents :
             MatchCount(storage.documents[p], response.arg) > 0}

\* the paths of the records of the answer
AnswerPaths ==
    {response.result.body.documents[i].path :
        i \in 1..Len(response.result.body.documents)}

\* C27: the answer of get_all_docs, and the answer of find_relevant_docs to a
\* query with a match, carry the number of selected documents as total, the
\* number of records as returned, and min(limit, total) records when the
\* limit is positive, all of them otherwise; the records of
\* find_relevant_docs are in non-increasing score order and no document left
\* out scores higher than a returned one.
C27_CountsAndLimit ==
    (response.op = "get_all_docs"
        \/ (response.op = "find_relevant_docs" /\ Selected # {})) =>
        LET body == response.result.body
            total == Cardinality(Selected)
        IN  /\ body.total = total
            /\ body.returned = Len(body.documents)
            /\ body.returned = IF response.limit > 0
                               THEN Min(response.limit, total) ELSE total
            /\ AnswerPaths \subseteq Selected
            /\ Cardinality(AnswerPaths) = body.returned
            /\ response.op = "find_relevant_docs" =>
                  /\ \A i, j \in 1..Len(body.documents) :
                        i < j =>
                           MatchCount(storage.documents[body.documents[i].path],
                                      response.arg)
                             >= MatchCount(storage.documents[body.documents[j].path],
                                           response.arg)
                  /\ \A p \in Selected \ AnswerPaths, q \in AnswerPaths :
                        MatchCount(storage.documents[q], response.arg)
                          >= MatchCount(storage.documents[p], response.arg)

\* a query with two matches was answered under a limit of 1: the document of
\* score 2 is returned, the document of score 1 is left out
C27_Witness ==
    /\ response.op = "find_relevant_docs"
    /\ response.limit = 1
    /\ Cardinality(Selected) = 2
    /\ response.result.body.total = 2
    /\ response.result.body.returned = 1
    /\ \E p \in Selected \ AnswerPaths :
          MatchCount(storage.documents[p], response.arg) = 1
    /\ \E q \in AnswerPaths :
          MatchCount(storage.documents[q], response.arg) = 2

\* get_all_docs returned one of two documents under a limit of 1, and both
\* under a limit of 0
C27_AllDocsLimitWitness ==
    /\ response.op = "get_all_docs"
    /\ response.limit = 1
    /\ response.result.body.total = 2
    /\ response.result.body.returned = 1

C27_AllDocsNoLimitWitness ==
    /\ response.op = "get_all_docs"
    /\ response.limit \in {-1, 0}
    /\ response.result.body.total = 2
    /\ response.result.body.returned = 2

(***************************************************************************)
(* The title of a document (document/mod.rs:67-95, github/mod.rs:219-235). *)
(***************************************************************************)
\* the greatest element of a set of numbers
SetMax(S) == CHOOSE x \in S : \A y \in S : y <= x

\* the contents a file may have: texts of "#", space, a letter and line feeds
TitleChars == {"#", " ", "x", "nl"}
Contents == Texts(TitleChars, MaxTextLen)

\* the paths a document may have
PathReadme == << "a", ".", "m", "d" >>
PathNested == << "d", "/", "a", ".", "m", "d" >>
PathTwoDots == << "d", "/", "a", ".", "b", ".", "m", "d" >>
PathNoExtension == << "d", "/", "n" >>
SamplePaths == {PathReadme, PathNested, PathTwoDots, PathNoExtension}

\* the last index of character ch in s, 0 when there is none
LastIndexOf(s, ch) == SetMax({0} \cup {i \in 1..Len(s) : s[i] = ch})

\* path.split('/').last() (github/mod.rs:221)
LastSegment(path) == SubSeq(path, LastIndexOf(path, "/") + 1, Len(path))

\* Path::file_stem (document/mod.rs:75-76): the file name up to its last
\* dot; the whole name when it has no dot or only a leading one
file_stem(path) ==
    LET name == LastSegment(path)
        dot == LastIndexOf(name, ".")
    IN  IF dot <= 1 THEN name ELSE SubSeq(name, 1, dot - 1)

\* the index of the last character of the line that holds index s
LineEnd(t, s) ==
    SetMax({e \in s..Len(t) : \A i \in s..e : t[i] # "nl"})

\* the regex (?m)^#\s+(.+)$ matched at p (document/mod.rs:93): p is the
\* start of a line and holds "#"; "\s+" takes k characters of whitespace,
\* line feeds among them; "(.+)" then starts on a character that is not a
\* line feed
StartsLine(t, p) == p = 1 \/ t[p - 1] = "nl"
WhitespaceRuns(t, p) ==
    {k \in 1..(Len(t) - p - 1) :
        /\ \A i \in (p + 1)..(p + k) : IsWhitespace(t[i])
        /\ t[p + k + 1] # "nl"}
MatchesAt(t, p) == StartsLine(t, p) /\ t[p] = "#" /\ WhitespaceRuns(t, p) # {}

\* the capture of the match at p: "\s+" is greedy and takes the longest run
\* that lets the rest match, "(.+)$" runs to the end of its line
CaptureAt(t, p) ==
    LET s == p + SetMax(WhitespaceRuns(t, p)) + 1
    IN  SubSeq(t, s, LineEnd(t, s))

\* extract_title (document/mod.rs:92-95): the capture of the leftmost match
extract_title(content) ==
    LET matches == {p \in 1..Len(content) : MatchesAt(content, p)}
    IN  IF matches = {} THEN None
        ELSE Some(CaptureAt(content, CHOOSE p \in matches : \A q \in matches : p <= q))

\* generate_summary (document/mod.rs:98-100): the pattern has a look-ahead,
\* which the regex crate rejects: Regex::new fails and ".ok()?" returns None
generate_summary(content) == None

\* mutant of GitHubTitle: the fallback is the file stem
GitHubTitle_Stem(path, content) ==
    IF extract_title(content) # None THEN extract_title(content)[1]
    ELSE file_stem(path)

\* the title list_files gives a document (github/mod.rs:221-225)
GitHubTitle(path, content) ==
    IF extract_title(content) # None THEN extract_title(content)[1]
    ELSE LastSegment(path)

\* the title process_file gives a document (document/mod.rs:72-79)
ScannerTitle(path, content) ==
    IF extract_title(content) # None THEN extract_title(content)[1]
    ELSE file_stem(path)

\* the Document list_files builds of a fetched file (github/mod.rs:219-237)
BuildDocument(path, content) ==
    /\ response = NoResponse
    /\ response' = [op |-> "list_files", arg |-> << path, content >>, limit |-> 0,
                    result |-> [path |-> path, content |-> content,
                                title |-> GitHubTitle(path, content),
                                summary |-> generate_summary(content)]]
    /\ UNCHANGED << ctor, storage, disk, connector_vars >>

\* the Document process_file builds of a local file (document/mod.rs:67-89)
process_file(path, content) ==
    /\ response = NoResponse
    /\ response' = [op |-> "process_file", arg |-> << path, content >>, limit |-> 0,
                    result |-> [path |-> path, content |-> content,
                                title |-> ScannerTitle(path, content),
                                summary |-> generate_summary(content)]]
    /\ UNCHANGED << ctor, storage, disk, connector_vars >>

NextTitle ==
    \/ \E path \in SamplePaths, content \in Contents : BuildDocument(path, content)
    \/ \E path \in SamplePaths, content \in Contents : process_file(path, content)

SpecTitle == Init /\ [][NextTitle]_vars

\* the lines of a text
RECURSIVE LinesOf(_)
LinesOf(t) ==
    LET nls == {i \in 1..Len(t) : t[i] = "nl"}
    IN  IF nls = {} THEN << t >>
        ELSE LET i == CHOOSE j \in nls : \A k \in nls : j <= k
             IN  << SubSeq(t, 1, i - 1) >> \o LinesOf(SubSeq(t, i + 1, Len(t)))

\* a line is a top-level heading: "#", whitespace, then text
IsHeading(line) ==
    /\ Len(line) >= 3
    /\ line[1] = "#"
    /\ IsWhitespace(line[2])
    /\ TrimStart(Tail(line)) # << >>

\* the text of a top-level heading
HeadingText(line) == TrimStart(Tail(line))

\* the top-level headings of a content, in order
Headings(content) == SelectSeq(LinesOf(content), IsHeading)

\* the base name of a path without its extension
BaseName(path) ==
    LET name == LastSegment(path)
        dots == {i \in 2..Len(name) : name[i] = "."}
    IN  IF dots = {} THEN name ELSE SubSeq(name, 1, SetMax(dots) - 1)

\* C28: the title of a document returned by list_files is the text of the
\* first top-level heading of its content when there is one, and otherwise
\* the base name of the file without its extension, which is the title the
\* local scanner falls back to.
C28_TitleIsHeadingOrBaseName ==
    response.op = "list_files" =>
        LET path == response.arg[1]
            content == response.arg[2]
        IN  /\ response.result.title =
                  IF Headings(content) # << >>
                  THEN HeadingText(Headings(content)[1])
                  ELSE BaseName(path)
            /\ Headings(content) = << >> =>
                  response.result.title = ScannerTitle(path, content)

\* the fallback alone: a content without a line that starts with "#" gets the
\* base name without its extension as its title
C28_FallbackIsBaseName ==
    (response.op = "list_files" /\ \A i \in 1..Len(response.arg[2]) :
                                       response.arg[2][i] # "#") =>
        response.result.title = BaseName(response.arg[1])

\* where list_files and the local scanner do agree: the title of a content
\* with a heading
C28_HeadingTitle ==
    (response.op \in {"list_files", "process_file"}
        /\ extract_title(response.arg[2]) # None) =>
        /\ response.result.title = extract_title(response.arg[2])[1]
        /\ response.result.title = GitHubTitle(response.arg[1], response.arg[2])
        /\ response.result.title = ScannerTitle(response.arg[1], response.arg[2])

====
